---------------------------- MODULE Spec2Model ----------------------------
(***************************************************************************)
(* Poker High Hand Tracker: the App component (timer, current best hand,   *)
(* session ledger) and the two fallback hand classifiers                   *)
(* (GeminiCardParser, ClaudeHandParser).                                   *)
(*                                                                         *)
(* Text is a sequence of one-character strings, so that toLowerCase, trim  *)
(* and includes are computed character by character as the code does.      *)
(***************************************************************************)
EXTENDS Integers, Sequences, FiniteSets, TLC

\* JavaScript null / undefined where an object is expected, and where a
\* string is expected.
Null == [null |-> TRUE]

NullStr == "null"

(***************************************************************************)
(* Bounds of the model.                                                    *)
(***************************************************************************)
\* A description is at most this many fragments joined by single spaces.
MaxFragments == 2
\* At most this many calls of updateCurrentBest and recordHighHand that get
\* past their guard, of deleteEntry and of loadDemoData happen in one run;
\* each advances the logical clock `now`.
MaxOps == 2
\* The countdown is scaled: a model minute has this many one-second ticks
\* (the code has 60, App.tsx:24,49,89).
SecondsPerMinute == 1
\* The duration options are 1..MaxMinutes model minutes (the code offers
\* 5, 10, 15, 20, 30 and 60, App.tsx:450-455).
MaxMinutes == 2
\* The ledgers whose statistics are read hold at most this many recorded
\* hands before a deletion or a demo load.
MaxLedger == 3

(***************************************************************************)
(* The string literals of gemini.ts and ClaudeHandParser.                  *)
(***************************************************************************)
Lit ==
  [
    royal_flush |-> <<"r", "o", "y", "a", "l", " ", "f", "l", "u", "s", "h">>,
    straight_flush |-> <<"s", "t", "r", "a", "i", "g", "h", "t", " ", "f", "l", "u", "s", "h">>,
    four_of_a_kind |-> <<"f", "o", "u", "r", " ", "o", "f", " ", "a", " ", "k", "i", "n", "d">>,
    quads |-> <<"q", "u", "a", "d", "s">>,
    full_house |-> <<"f", "u", "l", "l", " ", "h", "o", "u", "s", "e">>,
    boat |-> <<"b", "o", "a", "t">>,
    flush |-> <<"f", "l", "u", "s", "h">>,
    straight |-> <<"s", "t", "r", "a", "i", "g", "h", "t">>,
    three_of_a_kind |-> <<"t", "h", "r", "e", "e", " ", "o", "f", " ", "a", " ", "k", "i", "n", "d">>,
    trips |-> <<"t", "r", "i", "p", "s">>,
    two_pair |-> <<"t", "w", "o", " ", "p", "a", "i", "r">>,
    pair |-> <<"p", "a", "i", "r">>,
    spade |-> <<"s", "p", "a", "d", "e">>,
    heart |-> <<"h", "e", "a", "r", "t">>,
    diamond |-> <<"d", "i", "a", "m", "o", "n", "d">>,
    club |-> <<"c", "l", "u", "b">>,
    royal |-> <<"r", "o", "y", "a", "l">>,
    broadway |-> <<"b", "r", "o", "a", "d", "w", "a", "y">>,
    four |-> <<"f", "o", "u", "r">>,
    kind |-> <<"k", "i", "n", "d">>,
    aces |-> <<"a", "c", "e", "s">>,
    kings |-> <<"k", "i", "n", "g", "s">>,
    queens |-> <<"q", "u", "e", "e", "n", "s">>,
    jacks |-> <<"j", "a", "c", "k", "s">>,
    quad |-> <<"q", "u", "a", "d">>,
    full |-> <<"f", "u", "l", "l">>,
    house |-> <<"h", "o", "u", "s", "e">>,
    three |-> <<"t", "h", "r", "e", "e">>,
    set |-> <<"s", "e", "t">>,
    two |-> <<"t", "w", "o">>,
    d2 |-> <<"2">>,
    double |-> <<"d", "o", "u", "b", "l", "e">>,
    pocket |-> <<"p", "o", "c", "k", "e", "t">>,
    high |-> <<"h", "i", "g", "h">>,
    card |-> <<"c", "a", "r", "d">>,
    ace |-> <<"a", "c", "e">>,
    king |-> <<"k", "i", "n", "g">>,
    queen |-> <<"q", "u", "e", "e", "n">>,
    jack |-> <<"j", "a", "c", "k">>,
    ten |-> <<"t", "e", "n">>,
    d10 |-> <<"1", "0">>,
    nine |-> <<"n", "i", "n", "e">>,
    d9 |-> <<"9">>,
    eight |-> <<"e", "i", "g", "h", "t">>,
    d8 |-> <<"8">>,
    seven |-> <<"s", "e", "v", "e", "n">>,
    d7 |-> <<"7">>,
    six |-> <<"s", "i", "x">>,
    d6 |-> <<"6">>,
    five |-> <<"f", "i", "v", "e">>,
    d5 |-> <<"5">>,
    tens |-> <<"t", "e", "n", "s">>,
    nines |-> <<"n", "i", "n", "e", "s">>,
    eights |-> <<"e", "i", "g", "h", "t", "s">>,
    sevens |-> <<"s", "e", "v", "e", "n", "s">>,
    sixes |-> <<"s", "i", "x", "e", "s">>,
    fives |-> <<"f", "i", "v", "e", "s">>,
    fours |-> <<"f", "o", "u", "r", "s">>,
    threes |-> <<"t", "h", "r", "e", "e", "s">>,
    twos |-> <<"t", "w", "o", "s">>,
    over |-> <<"o", "v", "e", "r">>
  ]

(***************************************************************************)
(* String primitives.                                                      *)
(***************************************************************************)
UpperCaseLetters ==
  <<"A", "B", "C", "D", "E", "F", "G", "H", "I", "J", "K", "L", "M",
    "N", "O", "P", "Q", "R", "S", "T", "U", "V", "W", "X", "Y", "Z">>

LowerCaseLetters ==
  <<"a", "b", "c", "d", "e", "f", "g", "h", "i", "j", "k", "l", "m",
    "n", "o", "p", "q", "r", "s", "t", "u", "v", "w", "x", "y", "z">>

\* String.prototype.toLowerCase
toLowerCase(s) ==
  [i \in 1..Len(s) |->
     IF \E k \in 1..26 : UpperCaseLetters[k] = s[i]
     THEN LowerCaseLetters[CHOOSE k \in 1..26 : UpperCaseLetters[k] = s[i]]
     ELSE s[i]]

\* String.prototype.trim (the only white space of the model is the blank)
trim(s) ==
  LET solid == {i \in 1..Len(s) : s[i] # " "}
  IN  IF solid = {} THEN <<>>
      ELSE SubSeq(s, CHOOSE i \in solid : \A j \in solid : i <= j,
                     CHOOSE i \in solid : \A j \in solid : i >= j)

\* String.prototype.includes
includes(text, word) ==
  \E i \in 0..(Len(text) - Len(word)) :
     \A j \in 1..Len(word) : text[i + j] = word[j]

Card(rank, suit) == [rank |-> rank, suit |-> suit]

ParsedHand(cards, handName, handRank) ==
  [cards |-> cards, handName |-> handName, handRank |-> handRank]

(***************************************************************************)
(* GeminiCardParser (gemini.ts, the version App.tsx imports).              *)
(***************************************************************************)
Gemini_extractSuit(description) ==
  IF includes(description, Lit.spade) THEN "spades"
  ELSE IF includes(description, Lit.heart) THEN "hearts"
  ELSE IF includes(description, Lit.diamond) THEN "diamonds"
  ELSE IF includes(description, Lit.club) THEN "clubs"
  ELSE NullStr

\* `x || d` for a string or null
OrElse(x, d) == IF x = NullStr THEN d ELSE x

\* gemini.ts:99-110
Gemini_royalFlush(description) ==
  LET suit == OrElse(Gemini_extractSuit(description), "spades")
  IN  ParsedHand(<<Card("A", suit), Card("K", suit), Card("Q", suit),
                   Card("J", suit), Card("10", suit)>>, "Royal Flush", 10)

\* gemini.ts:112-123
Gemini_straightFlush(description) ==
  LET suit == OrElse(Gemini_extractSuit(description), "hearts")
  IN  ParsedHand(<<Card("9", suit), Card("8", suit), Card("7", suit),
                   Card("6", suit), Card("5", suit)>>, "Straight Flush", 9)

\* gemini.ts:125-135
Gemini_fourOfAKind ==
  ParsedHand(<<Card("A", "spades"), Card("A", "hearts"), Card("A", "diamonds"),
               Card("A", "clubs"), Card("K", "spades")>>, "Four of a Kind", 8)

\* gemini.ts:137-147
Gemini_fullHouse ==
  ParsedHand(<<Card("K", "spades"), Card("K", "hearts"), Card("K", "diamonds"),
               Card("Q", "clubs"), Card("Q", "spades")>>, "Full House", 7)

\* A variant of the flush branch whose last card keeps the default suit.
Mut_flushLastCardDefaultSuit(description) ==
  LET suit == OrElse(Gemini_extractSuit(description), "clubs")
  IN  ParsedHand(<<Card("A", suit), Card("J", suit), Card("9", suit),
                   Card("7", suit), Card("5", "clubs")>>, "Flush", 6)

\* gemini.ts:149-160
Gemini_flush(description) ==
  LET suit == OrElse(Gemini_extractSuit(description), "clubs")
  IN  ParsedHand(<<Card("A", suit), Card("J", suit), Card("9", suit),
                   Card("7", suit), Card("5", suit)>>, "Flush", 6)

\* gemini.ts:163-173
Gemini_straight ==
  ParsedHand(<<Card("8", "spades"), Card("7", "hearts"), Card("6", "diamonds"),
               Card("5", "clubs"), Card("4", "hearts")>>, "Straight", 5)

\* gemini.ts:175-185
Gemini_threeOfAKind ==
  ParsedHand(<<Card("K", "spades"), Card("K", "hearts"), Card("K", "diamonds"),
               Card("Q", "clubs"), Card("9", "spades")>>, "Three of a Kind", 4)

\* A variant of the two pair branch with the rank of one pair.
Mut_twoPairRankedAsPair ==
  ParsedHand(<<Card("K", "spades"), Card("K", "hearts"), Card("Q", "diamonds"),
               Card("Q", "clubs"), Card("9", "spades")>>, "Two Pair", 2)

\* gemini.ts:187-197
Gemini_twoPair ==
  ParsedHand(<<Card("K", "spades"), Card("K", "hearts"), Card("Q", "diamonds"),
               Card("Q", "clubs"), Card("9", "spades")>>, "Two Pair", 3)

\* gemini.ts:199-209
Gemini_onePair ==
  ParsedHand(<<Card("K", "spades"), Card("K", "hearts"), Card("Q", "diamonds"),
               Card("J", "clubs"), Card("9", "spades")>>, "One Pair", 2)

\* A variant of the last branch that answers with a high-card hand.
Mut_noMatchHighCard ==
  ParsedHand(<<Card("A", "spades"), Card("J", "hearts"), Card("9", "diamonds"),
               Card("7", "clubs"), Card("5", "hearts")>>, "High Card", 1)

\* gemini.ts:212, the result when no branch is taken
Gemini_noMatch == Null

\* gemini.ts:94-213
Gemini_parseHandFallback(handDescription) ==
  LET description == trim(toLowerCase(handDescription))
  IN
  IF includes(description, Lit.royal_flush) THEN
    Gemini_royalFlush(description)
  ELSE IF includes(description, Lit.straight_flush) THEN
    Gemini_straightFlush(description)
  ELSE IF includes(description, Lit.four_of_a_kind)
          \/ includes(description, Lit.quads) THEN
    Gemini_fourOfAKind
  ELSE IF includes(description, Lit.full_house)
          \/ includes(description, Lit.boat) THEN
    Gemini_fullHouse
  ELSE IF includes(description, Lit.flush)
          /\ ~includes(description, Lit.straight) THEN
    Gemini_flush(description)
  ELSE IF includes(description, Lit.straight)
          /\ ~includes(description, Lit.flush) THEN
    Gemini_straight
  ELSE IF includes(description, Lit.three_of_a_kind)
          \/ includes(description, Lit.trips) THEN
    Gemini_threeOfAKind
  ELSE IF includes(description, Lit.two_pair) THEN
    Gemini_twoPair
  ELSE IF includes(description, Lit.pair) THEN
    Gemini_onePair
  ELSE Gemini_noMatch

(***************************************************************************)
(* ClaudeHandParser.                                                       *)
(***************************************************************************)
\* pattern.every(word => text.includes(word))
Claude_matchesPattern(text, pattern) ==
  \A k \in 1..Len(pattern) : includes(text, pattern[k])

\* patterns.some(pattern => this.matchesPattern(text, pattern))
Claude_matchesAnyPattern(text, patterns) ==
  \E k \in 1..Len(patterns) : Claude_matchesPattern(text, patterns[k])

\* The loop `for (const rank of ['aces', 'kings', 'queens', 'jacks'])` shared by
\* extractRankFromQuads, extractRankFromTrips and extractRankFromPair; `dflt`
\* is what follows the loop.
Claude_firstFaceRank(description, dflt) ==
  IF includes(description, Lit.aces) THEN "A"
  ELSE IF includes(description, Lit.kings) THEN "K"
  ELSE IF includes(description, Lit.queens) THEN "Q"
  ELSE IF includes(description, Lit.jacks) THEN "J"
  ELSE dflt

Claude_extractRankFromQuads(description) == Claude_firstFaceRank(description, "A")

Claude_extractRankFromTrips(description) == Claude_firstFaceRank(description, "K")

Claude_extractRankFromPair(description) ==
  IF includes(description, Lit.pocket)
     /\ Claude_firstFaceRank(description, NullStr) # NullStr
  THEN Claude_firstFaceRank(description, NullStr)
  ELSE Claude_firstFaceRank(description, "K")

\* The map of convertWordToRank, in the order of the alternatives of overPattern.
RankWords ==
  << <<Lit.aces, "A">>, <<Lit.kings, "K">>, <<Lit.queens, "Q">>,
     <<Lit.jacks, "J">>, <<Lit.tens, "10">>, <<Lit.nines, "9">>,
     <<Lit.eights, "8">>, <<Lit.sevens, "7">>, <<Lit.sixes, "6">>,
     <<Lit.fives, "5">>, <<Lit.fours, "4">>, <<Lit.threes, "3">>,
     <<Lit.twos, "2">> >>

Claude_convertWordToRank(word) ==
  IF \E k \in 1..Len(RankWords) : RankWords[k][1] = word
  THEN RankWords[CHOOSE k \in 1..Len(RankWords) : RankWords[k][1] = word][2]
  ELSE "A"

\* `word` occurs in `text` starting at position i (1-based).
StartsAt(text, i, word) ==
  /\ i + Len(word) - 1 <= Len(text)
  /\ \A j \in 1..Len(word) : text[i + j - 1] = word[j]

\* The first position >= i of `text` that holds no blank (Len(text)+1 if none).
RECURSIVE SkipBlanks(_, _)
SkipBlanks(text, i) ==
  IF i > Len(text) \/ text[i] # " " THEN i ELSE SkipBlanks(text, i + 1)

\* A match of overPattern, (word)\s+over\s+(word), starting at position i:
\* <<word1, word2>>, or <<>> when there is none.
OverMatchAt(text, i) ==
  IF \E a \in 1..Len(RankWords) : StartsAt(text, i, RankWords[a][1]) THEN
    LET w1 == RankWords[CHOOSE a \in 1..Len(RankWords) :
                          StartsAt(text, i, RankWords[a][1])][1]
        p1 == i + Len(w1)
        p2 == SkipBlanks(text, p1)
        p3 == p2 + Len(Lit.over)
        p4 == SkipBlanks(text, p3)
    IN  IF /\ p2 > p1
           /\ StartsAt(text, p2, Lit.over)
           /\ p4 > p3
           /\ \E b \in 1..Len(RankWords) : StartsAt(text, p4, RankWords[b][1])
        THEN <<w1, RankWords[CHOOSE b \in 1..Len(RankWords) :
                               StartsAt(text, p4, RankWords[b][1])][1]>>
        ELSE <<>>
  ELSE <<>>

\* The leftmost match of overPattern that starts at position i or later.
RECURSIVE OverMatchFrom(_, _)
OverMatchFrom(text, i) ==
  IF i > Len(text) THEN <<>>
  ELSE IF OverMatchAt(text, i) # <<>> THEN OverMatchAt(text, i)
  ELSE OverMatchFrom(text, i + 1)

\* description.match(overPattern): the leftmost match, or <<>> for null.
OverMatch(text) == OverMatchFrom(text, 1)

Claude_extractFullHouseRanks(description) ==
  LET match == OverMatch(description)
  IN  IF match # <<>>
      THEN [trips |-> Claude_convertWordToRank(match[1]),
            pair  |-> Claude_convertWordToRank(match[2])]
      ELSE [trips |-> "K", pair |-> "Q"]

Claude_extractTwoPairRanks(description) == [high |-> "K", low |-> "Q"]

Claude_extractHighCard(description) ==
  IF includes(description, Lit.ace) THEN "A"
  ELSE IF includes(description, Lit.king) THEN "K"
  ELSE IF includes(description, Lit.queen) THEN "Q"
  ELSE IF includes(description, Lit.jack) THEN "J"
  ELSE IF includes(description, Lit.ten) \/ includes(description, Lit.d10) THEN "10"
  ELSE IF includes(description, Lit.nine) \/ includes(description, Lit.d9) THEN "9"
  ELSE IF includes(description, Lit.eight) \/ includes(description, Lit.d8) THEN "8"
  ELSE IF includes(description, Lit.seven) \/ includes(description, Lit.d7) THEN "7"
  ELSE IF includes(description, Lit.six) \/ includes(description, Lit.d6) THEN "6"
  ELSE IF includes(description, Lit.five) \/ includes(description, Lit.d5) THEN "5"
  ELSE "A"

\* A variant of extractSuit without the diamond line.
Mut_extractSuitNoDiamonds(description) ==
  IF includes(description, Lit.spade) THEN "spades"
  ELSE IF includes(description, Lit.heart) THEN "hearts"
  ELSE IF includes(description, Lit.club) THEN "clubs"
  ELSE NullStr

Claude_extractSuit(description) ==
  IF includes(description, Lit.spade) THEN "spades"
  ELSE IF includes(description, Lit.heart) THEN "hearts"
  ELSE IF includes(description, Lit.diamond) THEN "diamonds"
  ELSE IF includes(description, Lit.club) THEN "clubs"
  ELSE NullStr

\* const ranks = ['2', ..., 'A'] of createStraightFlush and createStraight
ranks == <<"2", "3", "4", "5", "6", "7", "8", "9", "10", "J", "Q", "K", "A">>

\* Array.prototype.indexOf, 0-based, -1 when absent
indexOf(arr, x) ==
  IF \E k \in 1..Len(arr) : arr[k] = x
  THEN (CHOOSE k \in 1..Len(arr) : arr[k] = x /\ \A m \in 1..(k - 1) : arr[m] # x) - 1
  ELSE -1

\* A variant of createRoyalFlush whose ten is always a spade.
Mut_createRoyalFlushTenOfSpades(suit) ==
  ParsedHand(<<Card("A", suit), Card("K", suit), Card("Q", suit),
               Card("J", suit), Card("10", "spades")>>, "Royal Flush", 10)

Claude_createRoyalFlush(suit) ==
  ParsedHand(<<Card("A", suit), Card("K", suit), Card("Q", suit),
               Card("J", suit), Card("10", suit)>>, "Royal Flush", 10)

\* The loop of createStraightFlush and createStraight: for i = 0..4, push the
\* card of rank ranks[startIndex - i] when that index is >= 0.
RECURSIVE StraightLoop(_, _, _, _)
StraightLoop(i, startIndex, suits, cards) ==
  IF i >= 5 THEN cards
  ELSE LET rankIndex == startIndex - i
       IN  IF rankIndex >= 0
           THEN StraightLoop(i + 1, startIndex, suits,
                             Append(cards, Card(ranks[rankIndex + 1], suits[i + 1])))
           ELSE StraightLoop(i + 1, startIndex, suits, cards)

\* A variant of createStraightFlush with the suits of createStraight.
Mut_createStraightFlushMixedSuits(suit, highCard) ==
  ParsedHand(StraightLoop(0, indexOf(ranks, highCard),
                          <<"spades", "hearts", "diamonds", "clubs", "hearts">>, <<>>),
             "Straight Flush", 9)

Claude_createStraightFlush(suit, highCard) ==
  ParsedHand(StraightLoop(0, indexOf(ranks, highCard),
                          <<suit, suit, suit, suit, suit>>, <<>>),
             "Straight Flush", 9)

Claude_createFourOfAKind(rank) ==
  ParsedHand(<<Card(rank, "spades"), Card(rank, "hearts"), Card(rank, "diamonds"),
               Card(rank, "clubs"), Card("K", "spades")>>, "Four of a Kind", 8)

Claude_createFullHouse(trips, pair) ==
  ParsedHand(<<Card(trips, "spades"), Card(trips, "hearts"), Card(trips, "diamonds"),
               Card(pair, "clubs"), Card(pair, "spades")>>, "Full House", 7)

Claude_createFlush(suit, highCard) ==
  ParsedHand(<<Card(highCard, suit), Card("J", suit), Card("9", suit),
               Card("7", suit), Card("5", suit)>>, "Flush", 6)

\* A variant of createStraight that deals every card in spades.
Mut_createStraightAllSpades(highCard) ==
  ParsedHand(StraightLoop(0, indexOf(ranks, highCard),
                          <<"spades", "spades", "spades", "spades", "spades">>,
                          <<>>),
             "Straight", 5)

Claude_createStraight(highCard) ==
  ParsedHand(StraightLoop(0, indexOf(ranks, highCard),
                          <<"spades", "hearts", "diamonds", "clubs", "hearts">>, <<>>),
             "Straight", 5)

Claude_createThreeOfAKind(rank) ==
  ParsedHand(<<Card(rank, "spades"), Card(rank, "hearts"), Card(rank, "diamonds"),
               Card("Q", "clubs"), Card("9", "spades")>>, "Three of a Kind", 4)

Claude_createTwoPair(high, low) ==
  ParsedHand(<<Card(high, "spades"), Card(high, "hearts"), Card(low, "diamonds"),
               Card(low, "clubs"), Card("9", "spades")>>, "Two Pair", 3)

Claude_createOnePair(rank) ==
  ParsedHand(<<Card(rank, "spades"), Card(rank, "hearts"), Card("Q", "diamonds"),
               Card("J", "clubs"), Card("9", "spades")>>, "One Pair", 2)

Claude_createHighCard(highCard) ==
  ParsedHand(<<Card(highCard, "spades"), Card("J", "hearts"), Card("9", "diamonds"),
               Card("7", "clubs"), Card("5", "hearts")>>, "High Card", 1)

\* The pattern lists of parseHandFallback.
Claude_quadsPatterns ==
  << <<Lit.four, Lit.kind>>, <<Lit.quads>>, <<Lit.four, Lit.aces>>,
     <<Lit.four, Lit.kings>>, <<Lit.four, Lit.queens>>, <<Lit.four, Lit.jacks>>,
     <<Lit.quad, Lit.aces>>, <<Lit.quad, Lit.kings>> >>

Claude_fullHousePatterns ==
  << <<Lit.full, Lit.house>>, <<Lit.boat>>, <<Lit.full>>, <<Lit.house>> >>

Claude_tripsPatterns ==
  << <<Lit.three, Lit.kind>>, <<Lit.trips>>, <<Lit.set>>,
     <<Lit.three, Lit.aces>>, <<Lit.three, Lit.kings>> >>

Claude_twoPairPatterns ==
  << <<Lit.two, Lit.pair>>, <<Lit.d2, Lit.pair>>, <<Lit.double, Lit.pair>> >>

Claude_onePairPatterns ==
  << <<Lit.pair>>, <<Lit.pocket, Lit.aces>>, <<Lit.pocket, Lit.kings>>,
     <<Lit.pocket, Lit.queens>>, <<Lit.pocket, Lit.jacks>>, <<Lit.pocket>>,
     <<Lit.aces>>, <<Lit.kings>>, <<Lit.queens>>, <<Lit.jacks>> >>

Claude_highCardPatterns ==
  << <<Lit.high, Lit.card>>, <<Lit.ace, Lit.high>>, <<Lit.king, Lit.high>>,
     <<Lit.queen, Lit.high>> >>

\* The result when no pattern matches.
Claude_noMatch == Null

Claude_parseHandFallback(handDescription) ==
  LET description == trim(toLowerCase(handDescription))
  IN
  IF \/ Claude_matchesPattern(description, <<Lit.royal, Lit.flush>>)
     \/ Claude_matchesPattern(description, <<Lit.broadway, Lit.flush>>) THEN
    Claude_createRoyalFlush(OrElse(Claude_extractSuit(description), "spades"))
  ELSE IF /\ Claude_matchesPattern(description, <<Lit.straight, Lit.flush>>)
          /\ ~Claude_matchesPattern(description, <<Lit.royal>>) THEN
    Claude_createStraightFlush(OrElse(Claude_extractSuit(description), "hearts"),
                               Claude_extractHighCard(description))
  ELSE IF Claude_matchesAnyPattern(description, Claude_quadsPatterns) THEN
    Claude_createFourOfAKind(Claude_extractRankFromQuads(description))
  ELSE IF Claude_matchesAnyPattern(description, Claude_fullHousePatterns) THEN
    LET r == Claude_extractFullHouseRanks(description)
    IN  Claude_createFullHouse(r.trips, r.pair)
  ELSE IF /\ Claude_matchesPattern(description, <<Lit.flush>>)
          /\ ~Claude_matchesPattern(description, <<Lit.straight>>)
          /\ ~Claude_matchesPattern(description, <<Lit.royal>>) THEN
    Claude_createFlush(OrElse(Claude_extractSuit(description), "clubs"),
                       Claude_extractHighCard(description))
  ELSE IF /\ Claude_matchesPattern(description, <<Lit.straight>>)
          /\ ~Claude_matchesPattern(description, <<Lit.flush>>) THEN
    Claude_createStraight(Claude_extractHighCard(description))
  ELSE IF Claude_matchesAnyPattern(description, Claude_tripsPatterns) THEN
    Claude_createThreeOfAKind(Claude_extractRankFromTrips(description))
  ELSE IF Claude_matchesAnyPattern(description, Claude_twoPairPatterns) THEN
    LET r == Claude_extractTwoPairRanks(description)
    IN  Claude_createTwoPair(r.high, r.low)
  ELSE IF Claude_matchesAnyPattern(description, Claude_onePairPatterns) THEN
    Claude_createOnePair(Claude_extractRankFromPair(description))
  ELSE IF Claude_matchesAnyPattern(description, Claude_highCardPatterns) THEN
    Claude_createHighCard(Claude_extractHighCard(description))
  ELSE Claude_noMatch

(***************************************************************************)
(* The state.                                                              *)
(***************************************************************************)
VARIABLES
  \* App's useState cells (App.tsx:23-36)
  timerMinutes, timeRemaining, isRunning,
  currentPlayer, currentHand, currentAmount,
  entries, nextId, geminiApiKey, currentBestHand,
  isParsingHand, showApiKeyInput, demoMode,
  \* cardParser.genAI is set (gemini.ts:10)
  genAI,
  \* the updateCurrentBest / recordHighHand call suspended at its await of a
  \* request to the external model, with the values its closure captured
  pending,
  \* logical time: advanced at each `new Date()` of a finishing call
  now,
  \* history: the handler the last step ran, the hand it classified, the
  \* greatest id given to a ledger entry so far, and whether loadDemoData
  \* has been called
  lastOp, lastParsed, lastId, demoUsed,
  \* the classifier harness: a description and what each parser returned
  description, geminiResult, claudeResult,
  \* what the render's call of getHandStats returned (App.tsx:298)
  handStats

appVars ==
  <<timerMinutes, timeRemaining, isRunning, currentPlayer, currentHand,
    currentAmount, entries, nextId, geminiApiKey, currentBestHand,
    isParsingHand, showApiKeyInput, demoMode, genAI, pending, now,
    lastOp, lastParsed, lastId, demoUsed>>

parserVars == <<description, geminiResult, claudeResult, handStats>>

vars == <<appVars, parserVars>>

\* A value of lastOp: the handler's name and, for deleteEntry, its argument.
Op(name, id) == [op |-> name, id |-> id]

\* lastOp after a handler no claim singles out.
Other == Op("other", 0)

\* A parser result not computed yet.
NotRun == [notRun |-> TRUE]

(***************************************************************************)
(* Inputs.                                                                 *)
(***************************************************************************)
PlayerInputs == {<<>>, <<" ", "a", "l">>}

HandInputs ==
  {<<>>, <<"F", "l", "u", "s", "h", " ">>, <<"j", "u", "n", "k">>}

\* What the amount field (type="number", step="0.01") may hold: nothing, or
\* a number with a sign and decimals.
AmountInputs == {<<>>, <<"-", "2", ".", "5">>}

KeyInputs == {<<>>, <<"k">>}

\* What the external model may answer to generateContent: the request fails
\* or the text is no JSON ("error"), or the text is a JSON object with cards,
\* a handName and a handRank of some type (gemini.ts:72-79).  Five cards
\* stand for any cards array.
AiCards ==
  <<Card("A", "hearts"), Card("K", "hearts"), Card("7", "clubs"),
    Card("4", "spades"), Card("2", "diamonds")>>

AiObject(handName, typeofHandRank, handRank) ==
  [kind |-> "object", cards |-> AiCards, handName |-> handName,
   typeofHandRank |-> typeofHandRank, handRank |-> handRank]

AiResponses ==
  { [kind |-> "error"],
    AiObject("Flush", "undefined", 0),
    AiObject("Flush", "number", 6),
    AiObject("Super", "number", 11) }

(***************************************************************************)
(* Helpers of App.                                                         *)
(***************************************************************************)
Digits == <<"0", "1", "2", "3", "4", "5", "6", "7", "8", "9">>

IsDigit(c) == \E d \in 1..10 : Digits[d] = c

DigitValue(c) == (CHOOSE d \in 1..10 : Digits[d] = c) - 1

RECURSIVE DigitsValue(_)
DigitsValue(s) ==
  IF s = <<>> THEN 0
  ELSE 10 * DigitsValue(SubSeq(s, 1, Len(s) - 1)) + DigitValue(s[Len(s)])

\* A number of the program is an IEEE-754 double.  The model holds the value
\* of a finite double exactly, as (-1)^neg * mant * 2^exp: mant is an odd
\* natural number of at most SignificandBits bits, written in base Base
\* with the least digit first; the two zeros, 0 and -0, have the empty
\* significand.  Infinity(FALSE) and Infinity(TRUE) are the two infinities
\* and NaN is NaN.  Every operation computes its exact result and rounds it
\* to the nearest double, ties to the even significand, as the program's
\* arithmetic does: a result of magnitude 2^ExponentLimit or more after
\* rounding is an infinity, and a result below 2^(1 - ExponentLimit) in
\* magnitude is rounded to a multiple of 2^(-SmallestBit), the subnormal
\* numbers, or to a zero.
LimbBits == 15

Base == 2^LimbBits

SignificandBits == 53

ExponentLimit == 1024

SmallestBit == 1074

SignedZero(neg) == [neg |-> neg, mant |-> <<>>, exp |-> 0]

Zero == SignedZero(FALSE)

Infinity(neg) == [neg |-> neg, inf |-> TRUE]

NaN == [nan |-> TRUE]

IsFinite(x) == "mant" \in DOMAIN x

\* The natural numbers behind the significands: digits in base Base, the
\* least first, the last one not 0; <<>> is 0.  A digit depends on the
\* digits below it only by a carry, a borrow or a remainder.
Limb(m, i) == IF i >= 1 /\ i <= Len(m) THEN m[i] ELSE 0

\* m without its leading digits 0
StripHigh(m) ==
  IF \A i \in 1..Len(m) : m[i] = 0 THEN <<>>
  ELSE SubSeq(m, 1, CHOOSE i \in 1..Len(m) :
                      m[i] # 0 /\ \A j \in (i + 1)..Len(m) : m[j] = 0)

\* Whether the digits lo..hi of a and b pass a carry on.
Propagates(a, b, lo, hi) ==
  \A k \in lo..hi : Limb(a, k) + Limb(b, k) = Base - 1

\* The digits lo..hi of a + b, `carry` telling whether the digits below lo
\* carry.  The upper half takes the carry of the lower half: one of its
\* positions carries and those above it pass the carry on, or all of them
\* pass on the carry from below.
RECURSIVE AddRange(_, _, _, _, _)
AddRange(a, b, lo, hi, carry) ==
  IF lo = hi
  THEN <<(Limb(a, lo) + Limb(b, lo) + (IF carry THEN 1 ELSE 0)) % Base>>
  ELSE AddRange(a, b, lo, (lo + hi) \div 2, carry)
       \o AddRange(a, b, (lo + hi) \div 2 + 1, hi,
                   \/ \E j \in lo..((lo + hi) \div 2) :
                        /\ Limb(a, j) + Limb(b, j) >= Base
                        /\ Propagates(a, b, j + 1, (lo + hi) \div 2)
                   \/ carry /\ Propagates(a, b, lo, (lo + hi) \div 2))

\* a + b
Add(a, b) ==
  StripHigh(AddRange(a, b, 1,
                     (IF Len(a) > Len(b) THEN Len(a) ELSE Len(b)) + 1,
                     FALSE))

\* a - b, for a >= b: a plus the complement of b plus 1, less Base^Len(a)
Sub(a, b) ==
  IF a = <<>> THEN <<>>
  ELSE StripHigh(AddRange(a, [k \in 1..Len(a) |-> Base - 1 - Limb(b, k)],
                          1, Len(a), TRUE))

\* a < b
Less(a, b) ==
  IF Len(a) # Len(b) THEN Len(a) < Len(b)
  ELSE \E j \in 1..Len(a) :
         a[j] < b[j] /\ \A k \in (j + 1)..Len(a) : a[k] = b[k]

\* m * c, for 0 < c <= 2 * Base: the low parts of the digits' products plus
\* their high parts one position up.
TimesSmall(m, c) ==
  Add([i \in 1..Len(m) |-> (m[i] * c) % Base],
      [i \in 1..(Len(m) + 1) |->
         IF i = 1 THEN 0 ELSE (m[i - 1] * c) \div Base])

\* The digits lo..hi of the quotient of m by c and the remainder they
\* leave, r being the remainder the digits above hi left.
RECURSIVE DivRange(_, _, _, _, _)
DivRange(m, c, lo, hi, r) ==
  IF lo = hi
  THEN [q |-> <<(r * Base + m[lo]) \div c>>, r |-> (r * Base + m[lo]) % c]
  ELSE CHOOSE result \in
         UNION {{[q |-> low.q \o high.q, r |-> low.r] :
                   low \in {DivRange(m, c, lo, (lo + hi) \div 2, high.r)}} :
                high \in {DivRange(m, c, (lo + hi) \div 2 + 1, hi, r)}} : TRUE

\* The quotient and the remainder of m by c, for 0 < c <= 2 * Base.
DivMod(m, c) ==
  IF m = <<>> THEN [q |-> <<>>, r |-> 0]
  ELSE LET division == DivRange(m, c, 1, Len(m), 0)
       IN  [q |-> StripHigh(division.q), r |-> division.r]

\* m * 2^s
ShiftLeft(m, s) ==
  IF m = <<>> THEN <<>>
  ELSE [i \in 1..(s \div LimbBits) |-> 0] \o TimesSmall(m, 2^(s % LimbBits))

\* The integer part of m / 2^d.
ShiftRight(m, d) ==
  StripHigh(SubSeq(
    [i \in 1..(Len(m) - d \div LimbBits) |->
       Limb(m, i + d \div LimbBits) \div 2^(d % LimbBits)
       + (Limb(m, i + d \div LimbBits + 1) % 2^(d % LimbBits))
           * 2^(LimbBits - (d % LimbBits))],
    1, Len(m) - d \div LimbBits))

RECURSIVE BitsOf(_)
BitsOf(n) == IF n = 0 THEN 0 ELSE 1 + BitsOf(n \div 2)

\* The number of bits of m.
BitLength(m) ==
  IF m = <<>> THEN 0 ELSE LimbBits * (Len(m) - 1) + BitsOf(m[Len(m)])

\* Bit j of m, bit 0 being the least.
Bit(m, j) == (Limb(m, j \div LimbBits + 1) \div 2^(j % LimbBits)) % 2

\* Whether one of the t least bits of m is set.
LowBitsSet(m, t) ==
  \/ \E i \in 1..(t \div LimbBits) : Limb(m, i) # 0
  \/ Limb(m, t \div LimbBits + 1) % 2^(t % LimbBits) # 0

RECURSIVE ZeroBits(_)
ZeroBits(n) == IF n % 2 = 1 THEN 0 ELSE 1 + ZeroBits(n \div 2)

\* The number of 0 bits below the least 1 bit of m, for m > 0: those of
\* the digits 0 below the least digit that is not 0, and those of that
\* digit.
TrailingZeros(m) ==
  LET least == CHOOSE i \in 1..Len(m) :
                 m[i] # 0 /\ \A j \in 1..(i - 1) : m[j] = 0
  IN  LimbBits * (least - 1) + ZeroBits(m[least])

\* The double of value m * 2^e, for m of at most SignificandBits bits and
\* e at least -SmallestBit: an infinity from 2^ExponentLimit on.
Double(neg, m, e) ==
  IF m = <<>> THEN SignedZero(neg)
  ELSE IF BitLength(m) + e > ExponentLimit THEN Infinity(neg)
  ELSE LET zeros == TrailingZeros(m)
       IN  [neg |-> neg, mant |-> ShiftRight(m, zeros), exp |-> e + zeros]

\* The double nearest to m * 2^e, or to a value strictly between m * 2^e
\* and (m + 1) * 2^e when `inexact` (m has then more than SignificandBits
\* bits): the bits below the significand and those below 2^(-SmallestBit)
\* are dropped, and what is left goes up when they are more than half of
\* its last place, or exactly half with the last place odd.
Round(neg, m, e, inexact) ==
  LET dropped ==
        IF BitLength(m) - SignificandBits > 0 - SmallestBit - e
        THEN BitLength(m) - SignificandBits
        ELSE 0 - SmallestBit - e
  IN  IF dropped <= 0 THEN Double(neg, m, e)
      ELSE LET up == /\ Bit(m, dropped - 1) = 1
                     /\ \/ inexact
                        \/ LowBitsSet(m, dropped - 1)
                        \/ Bit(m, dropped) = 1
           IN  Double(neg,
                      IF up THEN Add(ShiftRight(m, dropped), <<1>>)
                      ELSE ShiftRight(m, dropped),
                      e + dropped)

RECURSIVE LimbsOf(_)
LimbsOf(n) == IF n = 0 THEN <<>> ELSE <<n % Base>> \o LimbsOf(n \div Base)

\* The number a whole literal of the source denotes, for n >= 0.
Number(n) == Round(FALSE, LimbsOf(n), 0, FALSE)

\* x + y: NaN with a NaN or with the two infinities, an infinity with one,
\* -0 for two zeros -0 and 0 for two other zeros or opposite numbers.
Plus(x, y) ==
  IF x = NaN \/ y = NaN THEN NaN
  ELSE IF ~IsFinite(x)
  THEN IF ~IsFinite(y) /\ y.neg # x.neg THEN NaN ELSE x
  ELSE IF ~IsFinite(y) THEN y
  ELSE IF x.mant = <<>>
  THEN IF y.mant = <<>> THEN SignedZero(x.neg /\ y.neg) ELSE y
  ELSE IF y.mant = <<>> THEN x
  ELSE LET e == IF x.exp < y.exp THEN x.exp ELSE y.exp
           a == ShiftLeft(x.mant, x.exp - e)
           b == ShiftLeft(y.mant, y.exp - e)
       IN  IF x.neg = y.neg THEN Round(x.neg, Add(a, b), e, FALSE)
           ELSE IF a = b THEN Zero
           ELSE IF Less(a, b) THEN Round(y.neg, Sub(b, a), e, FALSE)
           ELSE Round(x.neg, Sub(a, b), e, FALSE)

\* x / n for a whole number n with 0 < n <= 2 * Base: the quotient is
\* computed to more bits than a significand holds, and rounded.
DividedBy(x, n) ==
  IF x = NaN \/ ~IsFinite(x) \/ x.mant = <<>> THEN x
  ELSE LET s == SignificandBits + BitsOf(n) + 1
           division == DivMod(ShiftLeft(x.mant, s), n)
       IN  Round(x.neg, division.q, x.exp - s, division.r # 0)

\* The position after the digits of `t` that start at position p.
DigitsEnd(t, p) ==
  CHOOSE q \in p..(Len(t) + 1) :
    /\ \A j \in p..(q - 1) : IsDigit(t[j])
    /\ q = Len(t) + 1 \/ ~IsDigit(t[q])

CharAt(t, p, chars) == p >= 1 /\ p <= Len(t) /\ t[p] \in chars

\* The recursions below go on from a value bound by `\in`: the value the
\* steps before have computed.  The powers of ten are taken by halves, 10^k
\* being 10^(k \div 2) * 10^(k - k \div 2).

\* m * 10^k
RECURSIVE TimesPow10(_, _)
TimesPow10(m, k) ==
  IF k <= 4 THEN TimesSmall(m, 10^k)
  ELSE CHOOSE result \in
         {TimesPow10(half, k - k \div 2) :
            half \in {TimesPow10(m, k \div 2)}} : TRUE

\* The natural number the digits lo..hi of s denote: up to nine digits
\* are a number below 2^31, and more digits two halves.
RECURSIVE NaturalOf(_, _, _)
NaturalOf(s, lo, hi) ==
  IF hi - lo < 9 THEN LimbsOf(DigitsValue(SubSeq(s, lo, hi)))
  ELSE Add(TimesPow10(NaturalOf(s, lo, (lo + hi) \div 2),
                      hi - (lo + hi) \div 2),
           NaturalOf(s, (lo + hi) \div 2 + 1, hi))

\* The integer part of d.q / 10^k, and whether this division or an earlier
\* one left a remainder: the integer part of the integer part of m / 10 by
\* 10 is that of m / 100.
RECURSIVE DivPow10(_, _)
DivPow10(d, k) ==
  IF k <= 4
  THEN LET division == DivMod(d.q, 10^k)
       IN  [q |-> division.q, inexact |-> d.inexact \/ division.r # 0]
  ELSE CHOOSE result \in
         {DivPow10(half, k - k \div 2) :
            half \in {DivPow10(d, k \div 2)}} : TRUE

\* The double nearest to digits / 10^k: the quotient of digits * 2^s by
\* 10^k has more bits than a significand holds, and is rounded.
RoundedQuotient(negative, digits, k, s) ==
  LET division == DivPow10([q |-> ShiftLeft(digits, s), inexact |-> FALSE], k)
  IN  Round(negative, division.q, 0 - s, division.inexact)

\* The double nearest to digits * 10^power.  With 8 < 10 < 16, a value of
\* b bits times 10^power is at least 2^(b - 1 + 3 * power) for a power
\* from 0 on, an infinity when that reaches 2^ExponentLimit, and below
\* 2^(b + 3 * power) for a power below 0, a zero when that is no more than
\* half of 2^(-SmallestBit).
Scaled(negative, digits, power) ==
  IF digits = <<>> THEN SignedZero(negative)
  ELSE IF power >= 0
  THEN IF BitLength(digits) - 1 + 3 * power >= ExponentLimit
       THEN Infinity(negative)
       ELSE Round(negative, TimesPow10(digits, power), 0, FALSE)
  ELSE IF BitLength(digits) + 3 * power < 0 - SmallestBit
  THEN SignedZero(negative)
  ELSE RoundedQuotient(negative, digits, 0 - power,
                       SignificandBits + 4 * (0 - power) + 1)

\* The exponent a literal has after position f1 - 1: `e` or `E`, a sign
\* and at least one digit, or none.  Its value is that of its digits from
\* the first one that is not 0 on, 10^5 standing for the value of more than
\* five digits: a literal of the model has far less than 10^4 digits.
Exponent(t, f1) ==
  LET x0 == IF CharAt(t, f1 + 1, {"+", "-"}) THEN f1 + 2 ELSE f1 + 1
      x1 == DigitsEnd(t, x0)
      solid == {i \in x0..(x1 - 1) : t[i] # "0"}
      value == IF solid = {} THEN 0
               ELSE IF \E i \in solid : x1 - i > 5 THEN 10^5
               ELSE DigitsValue(SubSeq(t, CHOOSE i \in solid :
                                            \A j \in solid : i <= j,
                                       x1 - 1))
  IN  IF CharAt(t, f1, {"e", "E"}) /\ x1 > x0
      THEN IF CharAt(t, f1 + 1, {"-"}) THEN 0 - value ELSE value
      ELSE 0

\* The number of the literal with integer digits at i0..i1-1 and decimals
\* at f0..f1-1: NaN when it has no digit.
Decimal(t, i0, i1, f0, f1) ==
  IF i1 = i0 /\ f1 = f0 THEN NaN
  ELSE Scaled(CharAt(t, 1, {"-"}),
              NaturalOf(SubSeq(t, i0, i1 - 1) \o SubSeq(t, f0, f1 - 1),
                        1, (i1 - i0) + (f1 - f0)),
              Exponent(t, f1) - (f1 - f0))

\* The literal whose integer digits are at i0..i1-1: a point and decimals
\* may follow.
Fraction(t, i0, i1) ==
  IF CharAt(t, i1, {"."})
  THEN Decimal(t, i0, i1, i1 + 1, DigitsEnd(t, i1 + 1))
  ELSE Decimal(t, i0, i1, i1, i1)

\* The literal that starts at i0, after the sign: the word Infinity, or
\* digits.
Literal(t, i0) ==
  IF SubSeq(t, i0, IF i0 + 7 <= Len(t) THEN i0 + 7 ELSE Len(t))
       = <<"I", "n", "f", "i", "n", "i", "t", "y">>
  THEN Infinity(CharAt(t, 1, {"-"}))
  ELSE Fraction(t, i0, DigitsEnd(t, i0))

\* parseFloat: the longest prefix of the trimmed string that is a decimal
\* literal (sign, digits, point, digits, exponent with at least one digit)
\* gives the double nearest to its value, a string with no digit NaN.
parseFloat(s) ==
  Literal(trim(s), IF CharAt(trim(s), 1, {"+", "-"}) THEN 2 ELSE 1)

\* parseFloat(currentAmount) || 0: NaN, 0 and -0 are falsy (App.tsx:176)
parseFloatOr0(s) ==
  LET amount == parseFloat(s)
  IN  IF amount = NaN \/ (IsFinite(amount) /\ amount.mant = <<>>)
      THEN Number(0)
      ELSE amount

\* parseHand's validation of the parsed answer (gemini.ts:71-90): the object,
\* or null.
Gemini_parseHandResult(response) ==
  IF response.kind = "error" THEN Null
  ELSE IF /\ response.cards # Null
          /\ response.handName # ""
          /\ response.typeofHandRank = "number"
       THEN ParsedHand(response.cards, response.handName, response.handRank)
       ELSE Null

\* A variant that sends a request as soon as the key field holds text.
Mut_sendsRequestOnTypedKey == geminiApiKey # <<>>

\* parseHandWithGemini sends a request: the key field is not empty
\* (App.tsx:112) and parseHand does not throw (gemini.ts:23-25).
SendsRequest == geminiApiKey # <<>> /\ genAI

\* A variant that returns what parseHand returned, without the fallback.
Mut_parseAfterRequestNoFallback(handDescription, response) ==
  Gemini_parseHandResult(response)

\* parseHandWithGemini when parseHand has answered `response` (App.tsx:113-127)
parseAfterRequest(handDescription, response) ==
  IF Gemini_parseHandResult(response) # Null
  THEN Gemini_parseHandResult(response)
  ELSE Gemini_parseHandFallback(handDescription)

\* parseHandWithGemini when no request is sent: the key field is empty
\* (App.tsx:120-127) or parseHand throws (App.tsx:128-131)
parseWithoutRequest(handDescription) == Gemini_parseHandFallback(handDescription)

\* A variant that counts every current best as unranked.
Mut_handRankOr0Unranked(best) == 0

\* currentBestHand.parsedHand?.handRank || 0 (App.tsx:149)
handRankOr0(best) ==
  IF best.parsedHand = Null THEN 0 ELSE best.parsedHand.handRank

\* A variant of the condition that also accepts an equal rank.
Mut_isBetterOrEqual(parsedHand, capturedBest) ==
  \/ capturedBest = Null
  \/ (parsedHand # Null /\ parsedHand.handRank >= handRankOr0(capturedBest))

\* The condition of App.tsx:149 on the captured current best.
isBetter(parsedHand, capturedBest) ==
  \/ capturedBest = Null
  \/ (parsedHand # Null /\ parsedHand.handRank > handRankOr0(capturedBest))

\* The names the statistics panel shows for the ranks (App.tsx:285-296).
handRankNames ==
  [rank \in 1..10 |->
     CASE rank = 10 -> "Royal Flush"
       [] rank = 9 -> "Straight Flush"
       [] rank = 8 -> "Four of a Kind"
       [] rank = 7 -> "Full House"
       [] rank = 6 -> "Flush"
       [] rank = 5 -> "Straight"
       [] rank = 4 -> "Three of a Kind"
       [] rank = 3 -> "Two Pair"
       [] rank = 2 -> "One Pair"
       [] rank = 1 -> "High Card"]

NoPending == [kind |-> "none"]

demoEntries ==
  << [id |-> 1, timestamp |-> now - 1, player |-> <<"A", "l", "e", "x", " ", "C", "h", "e", "n">>,
      hand |-> <<"R", "o", "y", "a", "l", " ", "f", "l", "u", "s", "h", " ", "i", "n", " ", "s", "p", "a", "d", "e", "s">>, amount |-> Number(500),
      parsedHand |-> ParsedHand(<<Card("A", "spades"), Card("K", "spades"),
                                  Card("Q", "spades"), Card("J", "spades"),
                                  Card("10", "spades")>>, "Royal Flush", 10)],
     [id |-> 2, timestamp |-> now - 2, player |-> <<"M", "a", "r", "i", "a", " ", "R", "o", "d", "r", "i", "g", "u", "e", "z">>,
      hand |-> <<"F", "o", "u", "r", " ", "a", "c", "e", "s">>, amount |-> Number(300),
      parsedHand |-> ParsedHand(<<Card("A", "spades"), Card("A", "hearts"),
                                  Card("A", "diamonds"), Card("A", "clubs"),
                                  Card("K", "spades")>>, "Four of a Kind", 8)],
     [id |-> 3, timestamp |-> now - 3, player |-> <<"J", "o", "h", "n", " ", "S", "m", "i", "t", "h">>,
      hand |-> <<"8", " ", "h", "i", "g", "h", " ", "s", "t", "r", "a", "i", "g", "h", "t">>, amount |-> Number(150),
      parsedHand |-> ParsedHand(<<Card("8", "spades"), Card("7", "hearts"),
                                  Card("6", "diamonds"), Card("5", "clubs"),
                                  Card("4", "hearts")>>, "Straight", 5)] >>

(***************************************************************************)
(* Init: the state after App's first render.  import.meta.env may or may   *)
(* not hold VITE_GEMINI_API_KEY (App.tsx:31-35).                           *)
(***************************************************************************)
AppInit ==
  \* useState(15) and useState(15 * 60): a duration of the select, scaled
  /\ timerMinutes = MaxMinutes
  /\ timeRemaining = MaxMinutes * SecondsPerMinute
  /\ isRunning = FALSE
  /\ currentPlayer = <<>>
  /\ currentHand = <<>>
  /\ currentAmount = <<>>
  /\ entries = <<>>
  /\ nextId = 1
  /\ \E envKey \in {<<>>, <<"k">>} :
        /\ geminiApiKey = envKey
        /\ genAI = (envKey # <<>>)
        /\ showApiKeyInput = (envKey = <<>>)
  /\ currentBestHand = Null
  /\ isParsingHand = FALSE
  /\ demoMode = FALSE
  /\ pending = NoPending
  /\ now = 0
  /\ lastOp = Op("init", 0)
  /\ lastParsed = NotRun
  /\ lastId = 0
  /\ demoUsed = FALSE

(***************************************************************************)
(* The timer (App.tsx:40-57, 79-98).                                       *)
(***************************************************************************)
\* A variant of the interval callback that does not count down.
Mut_TickStalls ==
  /\ isRunning /\ timeRemaining > 0
  /\ timeRemaining' = timeRemaining
  /\ isRunning' = isRunning
  /\ lastOp' = Op("tick", 0)
  /\ lastParsed' = NotRun
  /\ UNCHANGED parserVars
  /\ UNCHANGED <<timerMinutes, currentPlayer, currentHand, currentAmount,
                 entries, nextId, geminiApiKey, currentBestHand, isParsingHand,
                 showApiKeyInput, demoMode, genAI, pending, now, lastId, demoUsed>>

\* A variant of the interval callback that leaves the timer running at
\* expiry.
Mut_TickRestarts ==
  /\ isRunning /\ timeRemaining > 0
  /\ IF timeRemaining <= 1
     THEN /\ isRunning' = TRUE
          /\ timeRemaining' = timerMinutes * SecondsPerMinute
          /\ lastOp' = Op("tick:expired", 0)
     ELSE /\ timeRemaining' = timeRemaining - 1
          /\ isRunning' = isRunning
          /\ lastOp' = Op("tick", 0)
  /\ lastParsed' = NotRun
  /\ UNCHANGED parserVars
  /\ UNCHANGED <<timerMinutes, currentPlayer, currentHand, currentAmount,
                 entries, nextId, geminiApiKey, currentBestHand, isParsingHand,
                 showApiKeyInput, demoMode, genAI, pending, now, lastId, demoUsed>>

\* One firing of the interval callback: the updater of setTimeRemaining.
Tick ==
  /\ isRunning /\ timeRemaining > 0
  /\ IF timeRemaining <= 1
     THEN /\ isRunning' = FALSE
          /\ timeRemaining' = timerMinutes * SecondsPerMinute
          /\ lastOp' = Op("tick:expired", 0)
     ELSE /\ timeRemaining' = timeRemaining - 1
          /\ isRunning' = isRunning
          /\ lastOp' = Op("tick", 0)
  /\ lastParsed' = NotRun
  /\ UNCHANGED parserVars
  /\ UNCHANGED <<timerMinutes, currentPlayer, currentHand, currentAmount,
                 entries, nextId, geminiApiKey, currentBestHand, isParsingHand,
                 showApiKeyInput, demoMode, genAI, pending, now, lastId, demoUsed>>

\* The Start button (disabled while running).
startTimer ==
  /\ ~isRunning
  /\ isRunning' = TRUE
  /\ lastOp' = Op("startTimer", 0)
  /\ lastParsed' = NotRun
  /\ UNCHANGED parserVars
  /\ UNCHANGED <<timerMinutes, timeRemaining, currentPlayer, currentHand,
                 currentAmount, entries, nextId, geminiApiKey, currentBestHand,
                 isParsingHand, showApiKeyInput, demoMode, genAI, pending, now, lastId, demoUsed>>

\* A variant of the Pause button that also rewinds the countdown.
Mut_pauseTimerRewinds ==
  /\ isRunning
  /\ isRunning' = FALSE
  /\ timeRemaining' = timerMinutes * SecondsPerMinute
  /\ lastOp' = Op("pauseTimer", 0)
  /\ lastParsed' = NotRun
  /\ UNCHANGED parserVars
  /\ UNCHANGED <<timerMinutes, currentPlayer, currentHand,
                 currentAmount, entries, nextId, geminiApiKey, currentBestHand,
                 isParsingHand, showApiKeyInput, demoMode, genAI, pending, now, lastId, demoUsed>>

\* The Pause button (disabled while not running).
pauseTimer ==
  /\ isRunning
  /\ isRunning' = FALSE
  /\ lastOp' = Op("pauseTimer", 0)
  /\ lastParsed' = NotRun
  /\ UNCHANGED parserVars
  /\ UNCHANGED <<timerMinutes, timeRemaining, currentPlayer, currentHand,
                 currentAmount, entries, nextId, geminiApiKey, currentBestHand,
                 isParsingHand, showApiKeyInput, demoMode, genAI, pending, now, lastId, demoUsed>>

\* A variant of resetTimer without setCurrentBestHand(null).
Mut_resetTimerKeepsBest(closureTimerMinutes) ==
  /\ isRunning' = FALSE
  /\ timeRemaining' = closureTimerMinutes * SecondsPerMinute
  /\ currentBestHand' = currentBestHand

\* The three setState calls of resetTimer, with the timerMinutes of the
\* closure that calls it.
resetTimerEffect(closureTimerMinutes) ==
  /\ isRunning' = FALSE
  /\ timeRemaining' = closureTimerMinutes * SecondsPerMinute
  /\ currentBestHand' = Null

\* The Reset button.
resetTimer ==
  /\ resetTimerEffect(timerMinutes)
  /\ lastOp' = Op("resetTimer", 0)
  /\ lastParsed' = NotRun
  /\ UNCHANGED parserVars
  /\ UNCHANGED <<timerMinutes, currentPlayer, currentHand, currentAmount,
                 entries, nextId, geminiApiKey, isParsingHand, showApiKeyInput,
                 demoMode, genAI, pending, now, lastId, demoUsed>>

\* The duration select (disabled while running).
updateTimerDuration(minutes) ==
  /\ ~isRunning
  /\ timerMinutes' = minutes
  /\ timeRemaining' = IF ~isRunning THEN minutes * SecondsPerMinute ELSE timeRemaining
  /\ lastOp' = Other
  /\ lastParsed' = NotRun
  /\ UNCHANGED parserVars
  /\ UNCHANGED <<isRunning, currentPlayer, currentHand, currentAmount, entries,
                 nextId, geminiApiKey, currentBestHand, isParsingHand,
                 showApiKeyInput, demoMode, genAI, pending, now, lastId, demoUsed>>

(***************************************************************************)
(* The input fields and the API key (App.tsx:100-108, 425-436, 512-531).   *)
(***************************************************************************)
setCurrentPlayer(value) ==
  /\ currentPlayer' = value
  /\ value # currentPlayer
  /\ lastOp' = Other
  /\ lastParsed' = NotRun
  /\ UNCHANGED parserVars
  /\ UNCHANGED <<timerMinutes, timeRemaining, isRunning, currentHand,
                 currentAmount, entries, nextId, geminiApiKey, currentBestHand,
                 isParsingHand, showApiKeyInput, demoMode, genAI, pending, now, lastId, demoUsed>>

setCurrentHand(value) ==
  /\ currentHand' = value
  /\ value # currentHand
  /\ lastOp' = Other
  /\ lastParsed' = NotRun
  /\ UNCHANGED parserVars
  /\ UNCHANGED <<timerMinutes, timeRemaining, isRunning, currentPlayer,
                 currentAmount, entries, nextId, geminiApiKey, currentBestHand,
                 isParsingHand, showApiKeyInput, demoMode, genAI, pending, now, lastId, demoUsed>>

\* The amount field is rendered only while the timer is not running.
setCurrentAmount(value) ==
  /\ ~isRunning
  /\ currentAmount' = value
  /\ value # currentAmount
  /\ lastOp' = Other
  /\ lastParsed' = NotRun
  /\ UNCHANGED parserVars
  /\ UNCHANGED <<timerMinutes, timeRemaining, isRunning, currentPlayer,
                 currentHand, entries, nextId, geminiApiKey, currentBestHand,
                 isParsingHand, showApiKeyInput, demoMode, genAI, pending, now, lastId, demoUsed>>

\* The key field is rendered only while showApiKeyInput.
setGeminiApiKey(value) ==
  /\ showApiKeyInput
  /\ geminiApiKey' = value
  /\ value # geminiApiKey
  /\ lastOp' = Other
  /\ lastParsed' = NotRun
  /\ UNCHANGED parserVars
  /\ UNCHANGED <<timerMinutes, timeRemaining, isRunning, currentPlayer,
                 currentHand, currentAmount, entries, nextId, currentBestHand,
                 isParsingHand, showApiKeyInput, demoMode, genAI, pending, now, lastId, demoUsed>>

\* The Set Key button.
handleApiKeySubmit ==
  /\ showApiKeyInput
  /\ IF trim(geminiApiKey) # <<>>
     THEN /\ genAI' = TRUE
          /\ showApiKeyInput' = FALSE
          /\ lastOp' = Other
     ELSE /\ UNCHANGED <<genAI, showApiKeyInput>>
          /\ lastOp' = Other
  /\ lastParsed' = NotRun
  /\ UNCHANGED parserVars
  /\ UNCHANGED <<timerMinutes, timeRemaining, isRunning, currentPlayer,
                 currentHand, currentAmount, entries, nextId, geminiApiKey,
                 currentBestHand, isParsingHand, demoMode, pending, now, lastId, demoUsed>>

\* The Skip button.
skipApiKey ==
  /\ showApiKeyInput
  /\ showApiKeyInput' = FALSE
  /\ lastOp' = Other
  /\ lastParsed' = NotRun
  /\ UNCHANGED parserVars
  /\ UNCHANGED <<timerMinutes, timeRemaining, isRunning, currentPlayer,
                 currentHand, currentAmount, entries, nextId, geminiApiKey,
                 currentBestHand, isParsingHand, demoMode, genAI, pending, now, lastId, demoUsed>>

(***************************************************************************)
(* updateCurrentBest (App.tsx:135-156).  The Update Best button is         *)
(* rendered while the timer runs and disabled while isParsingHand.  The    *)
(* call reads currentPlayer, currentHand and currentBestHand from the      *)
(* closure of the render in which the button was clicked.                  *)
(***************************************************************************)
updateEnabled == isRunning /\ ~isParsingHand

\* App.tsx:136
updateRejects == trim(currentPlayer) = <<>> \/ trim(currentHand) = <<>>

\* App.tsx:141-155: what follows the await, for the captured values `c` and
\* the classification `parsedHand`.
updateCurrentBestFinish(c, parsedHand) ==
  LET newBest == [player |-> trim(c.player), hand |-> trim(c.hand),
                  parsedHand |-> parsedHand, timestamp |-> now + 1]
  IN  /\ currentBestHand' = IF isBetter(parsedHand, c.best)
                            THEN newBest ELSE currentBestHand
      /\ isParsingHand' = FALSE
      /\ currentPlayer' = <<>>
      /\ currentHand' = <<>>
      /\ now' = now + 1
      /\ lastOp' = Op("updateCurrentBest", 0)
      /\ lastParsed' = parsedHand
      /\ UNCHANGED parserVars
      /\ pending' = NoPending
      /\ UNCHANGED <<timerMinutes, timeRemaining, isRunning, currentAmount,
                     entries, nextId, geminiApiKey, showApiKeyInput, demoMode,
                     genAI,
                 lastId, demoUsed>>

updateCapture ==
  [kind |-> "update", player |-> currentPlayer, hand |-> currentHand,
   best |-> currentBestHand]

\* The early return of App.tsx:136.
updateCurrentBestReturn ==
  /\ updateEnabled /\ updateRejects
  /\ lastOp' = Other
  /\ lastParsed' = NotRun
  /\ UNCHANGED parserVars
  /\ UNCHANGED <<timerMinutes, timeRemaining, isRunning, currentPlayer,
                 currentHand, currentAmount, entries, nextId, geminiApiKey,
                 currentBestHand, isParsingHand, showApiKeyInput, demoMode,
                 genAI, pending, now,
                 lastId, demoUsed>>

\* No request is sent: the await resumes before any other event is handled.
updateCurrentBestLocal ==
  /\ updateEnabled /\ ~updateRejects /\ ~SendsRequest
  /\ now < MaxOps
  /\ updateCurrentBestFinish(updateCapture, parseWithoutRequest(currentHand))

\* A request is sent: the call is suspended at App.tsx:139.
updateCurrentBestAwait ==
  /\ updateEnabled /\ ~updateRejects /\ SendsRequest
  /\ now < MaxOps
  /\ isParsingHand' = TRUE
  /\ pending' = updateCapture
  /\ lastOp' = Op("updateCurrentBest:await", 0)
  /\ lastParsed' = NotRun
  /\ UNCHANGED parserVars
  /\ UNCHANGED <<timerMinutes, timeRemaining, isRunning, currentPlayer,
                 currentHand, currentAmount, entries, nextId, geminiApiKey,
                 currentBestHand, showApiKeyInput, demoMode, genAI, now,
                 lastId, demoUsed>>

\* The request is answered and the suspended call runs to its end.
updateCurrentBestResume ==
  /\ pending.kind = "update"
  /\ \E response \in AiResponses :
        updateCurrentBestFinish(pending, parseAfterRequest(pending.hand, response))

\* The Clear button of the current-best panel (App.tsx:482-488).
clearCurrentBest ==
  /\ currentBestHand # Null
  /\ currentBestHand' = Null
  /\ lastOp' = Op("clearCurrentBest", 0)
  /\ lastParsed' = NotRun
  /\ UNCHANGED parserVars
  /\ UNCHANGED <<timerMinutes, timeRemaining, isRunning, currentPlayer,
                 currentHand, currentAmount, entries, nextId, geminiApiKey,
                 isParsingHand, showApiKeyInput, demoMode, genAI, pending, now,
                 lastId, demoUsed>>

(***************************************************************************)
(* recordHighHand (App.tsx:158-194).  The Record Hand button is rendered   *)
(* while the timer does not run and disabled while isParsingHand.  The     *)
(* call reads currentBestHand, the input fields, nextId and (in            *)
(* resetTimer) timerMinutes from the closure of the click's render.        *)
(***************************************************************************)
recordEnabled == ~isRunning /\ ~isParsingHand

\* App.tsx:159-163
handToRecord ==
  IF currentBestHand # Null
  THEN [player |-> currentBestHand.player, hand |-> currentBestHand.hand,
        parsedHand |-> currentBestHand.parsedHand]
  ELSE [player |-> trim(currentPlayer), hand |-> trim(currentHand),
        parsedHand |-> Null]

\* App.tsx:165
recordRejects == handToRecord.player = <<>> \/ handToRecord.hand = <<>>

recordCapture ==
  [kind |-> "record", player |-> handToRecord.player, hand |-> handToRecord.hand,
   amount |-> currentAmount, nextId |-> nextId, timerMinutes |-> timerMinutes]

\* A variant of the updater that does not advance the counter.
Mut_keepNextId(prev) == prev

\* The updater of setNextId (App.tsx:187).
incrementNextId(prev) == prev + 1

Max(a, b) == IF a > b THEN a ELSE b

\* A variant that puts the new entry in place of the ledger's first entry,
\* as an updater built on a list read before the await would.
Mut_recordHighHandFinishOverwrites(c, parsedHand) ==
  LET newEntry == [id |-> c.nextId, timestamp |-> now + 1, player |-> c.player,
                   hand |-> c.hand, amount |-> parseFloatOr0(c.amount),
                   parsedHand |-> parsedHand]
  IN  /\ entries' = <<newEntry>> \o (IF entries = <<>> THEN entries
                                     ELSE Tail(entries))
      /\ nextId' = incrementNextId(nextId)
      /\ currentPlayer' = <<>>
      /\ currentHand' = <<>>
      /\ currentAmount' = <<>>
      /\ isParsingHand' = FALSE
      /\ resetTimerEffect(c.timerMinutes)
      /\ now' = now + 1
      /\ lastOp' = Op("recordHighHand", 0)
      /\ lastParsed' = parsedHand
      /\ UNCHANGED parserVars
      /\ pending' = NoPending
      /\ lastId' = Max(lastId, c.nextId)
      /\ UNCHANGED <<timerMinutes, geminiApiKey, showApiKeyInput, demoMode,
                     genAI, demoUsed>>

\* App.tsx:176-193: what follows the classification.  setCurrentBestHand(null)
\* of line 191 is repeated by resetTimer, called last with the closure's
\* timerMinutes.
recordHighHandFinish(c, parsedHand) ==
  LET newEntry == [id |-> c.nextId, timestamp |-> now + 1, player |-> c.player,
                   hand |-> c.hand, amount |-> parseFloatOr0(c.amount),
                   parsedHand |-> parsedHand]
  IN  /\ entries' = <<newEntry>> \o entries
      /\ nextId' = incrementNextId(nextId)
      /\ currentPlayer' = <<>>
      /\ currentHand' = <<>>
      /\ currentAmount' = <<>>
      /\ isParsingHand' = FALSE
      /\ resetTimerEffect(c.timerMinutes)
      /\ now' = now + 1
      /\ lastOp' = Op("recordHighHand", 0)
      /\ lastParsed' = parsedHand
      /\ UNCHANGED parserVars
      /\ pending' = NoPending
      /\ lastId' = Max(lastId, c.nextId)
      /\ UNCHANGED <<timerMinutes, geminiApiKey, showApiKeyInput, demoMode,
                     genAI, demoUsed>>

\* The alert and return of App.tsx:165-168.
recordHighHandReturn ==
  /\ recordEnabled /\ recordRejects
  /\ lastOp' = Other
  /\ lastParsed' = NotRun
  /\ UNCHANGED parserVars
  /\ UNCHANGED <<timerMinutes, timeRemaining, isRunning, currentPlayer,
                 currentHand, currentAmount, entries, nextId, geminiApiKey,
                 currentBestHand, isParsingHand, showApiKeyInput, demoMode,
                 genAI, pending, now,
                 lastId, demoUsed>>

\* The hand is classified already (App.tsx:171-172), or no request is sent.
recordHighHandLocal ==
  /\ recordEnabled /\ ~recordRejects
  /\ handToRecord.parsedHand # Null \/ ~SendsRequest
  /\ now < MaxOps
  /\ recordHighHandFinish(recordCapture,
                          IF handToRecord.parsedHand # Null
                          THEN handToRecord.parsedHand
                          ELSE parseWithoutRequest(handToRecord.hand))

\* A request is sent: the call is suspended at App.tsx:173.
recordHighHandAwait ==
  /\ recordEnabled /\ ~recordRejects
  /\ handToRecord.parsedHand = Null /\ SendsRequest
  /\ now < MaxOps
  /\ isParsingHand' = TRUE
  /\ pending' = recordCapture
  /\ lastOp' = Op("recordHighHand:await", 0)
  /\ lastParsed' = NotRun
  /\ UNCHANGED parserVars
  /\ UNCHANGED <<timerMinutes, timeRemaining, isRunning, currentPlayer,
                 currentHand, currentAmount, entries, nextId, geminiApiKey,
                 currentBestHand, showApiKeyInput, demoMode, genAI, now,
                 lastId, demoUsed>>

recordHighHandResume ==
  /\ pending.kind = "record"
  /\ \E response \in AiResponses :
        recordHighHandFinish(pending, parseAfterRequest(pending.hand, response))

(***************************************************************************)
(* The ledger (App.tsx:196-267).                                           *)
(***************************************************************************)
\* A variant of the filter that drops the newest entry instead.
Mut_withoutNewest(list, id) == IF list = <<>> THEN list ELSE Tail(list)

\* prev.filter(entry => entry.id !== id)
withoutId(list, id) == SelectSeq(list, LAMBDA entry : entry.id # id)

\* A variant of the Delete button that also clears the current best.
Mut_deleteEntryClearsBest(id) ==
  /\ entries' = withoutId(entries, id)
  /\ currentBestHand' = Null
  /\ lastOp' = Op("deleteEntry", id)
  /\ lastParsed' = NotRun
  /\ UNCHANGED parserVars
  /\ UNCHANGED <<timerMinutes, timeRemaining, isRunning, currentPlayer,
                 currentHand, currentAmount, nextId, geminiApiKey,
                 isParsingHand, showApiKeyInput, demoMode,
                 genAI, pending, now,
                 lastId, demoUsed>>

\* The Delete button of an entry.
deleteEntry(id) ==
  /\ entries' = withoutId(entries, id)
  /\ lastOp' = Op("deleteEntry", id)
  /\ lastParsed' = NotRun
  /\ UNCHANGED parserVars
  /\ UNCHANGED <<timerMinutes, timeRemaining, isRunning, currentPlayer,
                 currentHand, currentAmount, nextId, geminiApiKey,
                 currentBestHand, isParsingHand, showApiKeyInput, demoMode,
                 genAI, pending, now,
                 lastId, demoUsed>>

\* The Demo Mode button (rendered while not in demo mode).
loadDemoData ==
  /\ ~demoMode
  /\ now < MaxOps
  /\ entries' = demoEntries
  /\ nextId' = 4
  /\ demoMode' = TRUE
  /\ now' = now + 1
  /\ lastOp' = Op("loadDemoData", 0)
  /\ lastParsed' = NotRun
  /\ UNCHANGED parserVars
  /\ lastId' = Max(lastId, 3)
  /\ demoUsed' = TRUE
  /\ UNCHANGED <<timerMinutes, timeRemaining, isRunning, currentPlayer,
                 currentHand, currentAmount, geminiApiKey, currentBestHand,
                 isParsingHand, showApiKeyInput, genAI, pending>>

\* The Clear Demo button (rendered while in demo mode).
clearDemoData ==
  /\ demoMode
  /\ entries' = <<>>
  /\ nextId' = 1
  /\ demoMode' = FALSE
  /\ currentBestHand' = Null
  /\ lastOp' = Op("clearDemoData", 0)
  /\ lastParsed' = NotRun
  /\ UNCHANGED parserVars
  /\ UNCHANGED <<timerMinutes, timeRemaining, isRunning, currentPlayer,
                 currentHand, currentAmount, geminiApiKey, isParsingHand,
                 showApiKeyInput, genAI, pending, now,
                 lastId, demoUsed>>

(***************************************************************************)
(* getHandStats (App.tsx:269-283), computed from `entries` on each read.   *)
(***************************************************************************)
\* entries.reduce((sum, entry) => sum + entry.amount, 0)
RECURSIVE totalPayoutFrom(_, _)
totalPayoutFrom(list, sum) ==
  IF list = <<>> THEN sum
  ELSE totalPayoutFrom(Tail(list), Plus(sum, Head(list).amount))

\* A variant that files an entry without a parsed hand under High Card.
Mut_rankOfEntryHighCard(entry) ==
  IF entry.parsedHand # Null /\ entry.parsedHand.handRank # 0
  THEN entry.parsedHand.handRank
  ELSE 1

\* entry.parsedHand?.handRank || 0
rankOfEntry(entry) ==
  IF entry.parsedHand # Null /\ entry.parsedHand.handRank # 0
  THEN entry.parsedHand.handRank
  ELSE 0

\* acc[rank] = (acc[rank] || 0) + 1
countRank(acc, rank) ==
  [r \in DOMAIN acc \cup {rank} |->
     IF r = rank
     THEN (IF rank \in DOMAIN acc THEN acc[rank] ELSE 0) + 1
     ELSE acc[r]]

\* entries.reduce((acc, entry) => ..., {}): the object's keys are the ranks
\* met.
RECURSIVE handsByRankFrom(_, _)
handsByRankFrom(list, acc) ==
  IF list = <<>> THEN acc
  ELSE handsByRankFrom(Tail(list), countRank(acc, rankOfEntry(Head(list))))

getHandStats ==
  LET totalPayout == totalPayoutFrom(entries, Number(0))
  IN  [totalHands |-> Len(entries),
       totalPayout |-> totalPayout,
       averagePayout |-> IF Len(entries) > 0
                         THEN DividedBy(totalPayout, Len(entries))
                         ELSE Number(0),
       handsByRank |-> handsByRankFrom(entries, <<>>)]

(***************************************************************************)
(* The specification of App.                                               *)
(***************************************************************************)
Init ==
  /\ AppInit
  /\ description = <<>>
  /\ geminiResult = NotRun
  /\ claudeResult = NotRun
  /\ handStats = NotRun

Next ==
  \/ Tick
  \/ startTimer
  \/ pauseTimer
  \/ resetTimer
  \/ \E minutes \in 1..MaxMinutes : updateTimerDuration(minutes)
  \/ \E value \in PlayerInputs : setCurrentPlayer(value)
  \/ \E value \in HandInputs : setCurrentHand(value)
  \/ \E value \in AmountInputs : setCurrentAmount(value)
  \/ \E value \in KeyInputs : setGeminiApiKey(value)
  \/ handleApiKeySubmit
  \/ skipApiKey
  \/ updateCurrentBestReturn
  \/ updateCurrentBestLocal
  \/ updateCurrentBestAwait
  \/ updateCurrentBestResume
  \/ clearCurrentBest
  \/ recordHighHandReturn
  \/ recordHighHandLocal
  \/ recordHighHandAwait
  \/ recordHighHandResume
  \/ \E k \in 1..Len(entries) : deleteEntry(entries[k].id)
  \/ loadDemoData
  \/ clearDemoData

Spec == Init /\ [][Next]_vars

\* The handlers that read or set the timer, the current best or the input
\* fields.  The three ledger handlers left out (deleteEntry, loadDemoData,
\* clearDemoData) set entries, nextId, demoMode and currentBestHand only
\* and enable no handler that sets the timer.
TimerNext ==
  \/ Tick
  \/ startTimer
  \/ pauseTimer
  \/ resetTimer
  \/ \E minutes \in 1..MaxMinutes : updateTimerDuration(minutes)
  \/ \E value \in PlayerInputs : setCurrentPlayer(value)
  \/ \E value \in HandInputs : setCurrentHand(value)
  \/ \E value \in AmountInputs : setCurrentAmount(value)
  \/ \E value \in KeyInputs : setGeminiApiKey(value)
  \/ handleApiKeySubmit
  \/ skipApiKey
  \/ updateCurrentBestReturn
  \/ updateCurrentBestLocal
  \/ updateCurrentBestAwait
  \/ updateCurrentBestResume
  \/ clearCurrentBest
  \/ recordHighHandReturn
  \/ recordHighHandLocal
  \/ recordHighHandAwait
  \/ recordHighHandResume

\* App with its interval: while the timer runs with time left, setInterval
\* calls the callback again after a second (App.tsx:43-54), whatever other
\* events are handled in between.
FairSpec == Init /\ [][TimerNext]_vars /\ WF_vars(Tick)

(***************************************************************************)
(* The classifier harness: parseHandFallback of both parsers applied to    *)
(* every description of at most MaxFragments fragments joined by blanks.   *)
(***************************************************************************)
Fragments ==
  { <<>>, <<"j", "u", "n", "k">>, <<"R", "O", "Y", "A", "L">>,
    Lit.royal_flush, Lit.straight_flush, Lit.four_of_a_kind, Lit.quads,
    Lit.full_house, Lit.boat, Lit.flush, Lit.straight, Lit.three_of_a_kind,
    Lit.trips, Lit.two_pair, Lit.pair,
    Lit.royal, Lit.broadway, Lit.four, Lit.kind, Lit.aces, Lit.kings,
    Lit.queens, Lit.jacks, Lit.quad, Lit.full, Lit.house, Lit.three, Lit.set,
    Lit.two, Lit.d2, Lit.double, Lit.pocket, Lit.high, Lit.card, Lit.ace,
    Lit.king, Lit.queen, Lit.d10, Lit.d6, Lit.d5,
    Lit.spade \o <<"s">>, Lit.heart \o <<"s">>, Lit.diamond \o <<"s">>,
    Lit.club \o <<"s">>,
    Lit.kings \o <<" ">> \o Lit.over \o <<" ">> \o Lit.kings,
    Lit.tens \o <<" ", " ">> \o Lit.over \o <<" ">> \o Lit.twos }

\* The descriptions of 1..n fragments.
RECURSIVE Descriptions(_)
Descriptions(n) ==
  IF n <= 1 THEN Fragments
  ELSE LET shorter == Descriptions(n - 1)
       IN  shorter \cup {d \o <<" ">> \o f : d \in shorter, f \in Fragments}

ParserInit ==
  /\ AppInit
  /\ geminiApiKey = <<>>
  /\ description \in Descriptions(MaxFragments)
  /\ geminiResult = NotRun
  /\ claudeResult = NotRun
  /\ handStats = NotRun

\* Both parsers classify the description.
Classify ==
  /\ geminiResult = NotRun
  /\ geminiResult' = Gemini_parseHandFallback(description)
  /\ claudeResult' = Claude_parseHandFallback(description)
  /\ UNCHANGED <<description, handStats, appVars>>

ParserNext == Classify

ParserSpec == ParserInit /\ [][ParserNext]_vars

(***************************************************************************)
(* The statistics harness: `entries` starts as a ledger that Record has    *)
(* built, hand after hand, with no key set; entries may be deleted and the *)
(* demo data loaded or cleared, and then the render reads getHandStats     *)
(* (App.tsx:298).                                                          *)
(***************************************************************************)
\* Amounts typed into the amount field (App.tsx:524-532), which has a step
\* and no least and no greatest value: those of AmountInputs, four more
\* multiples of the step 0.01, a number whose double added to itself is
\* beyond the doubles, a number below all doubles but -Infinity, and the
\* least double above 0.
LedgerAmounts ==
  AmountInputs \cup
    {<<"0", ".", "1">>, <<"0", ".", "2">>, <<"0", ".", "3">>,
     <<"0", ".", "7">>, <<"1", "e", "3", "0", "8">>,
     <<"-", "1", "e", "3", "0", "9">>, <<"5", "e", "-", "3", "2", "4">>}

\* Hands typed into the hand field: one the fallback parser classifies, one
\* it does not.
LedgerHands == {trim(hand) : hand \in HandInputs} \ {<<>>}

\* The entry the k-th Record of a session adds (App.tsx:176-185).
RecordedEntry(k, hand, amount) ==
  [id |-> k, timestamp |-> k, player |-> <<"a", "l">>, hand |-> hand,
   amount |-> parseFloatOr0(amount),
   parsedHand |-> parseWithoutRequest(hand)]

\* The ledgers after n Records, the newest entry first (App.tsx:186).
RECURSIVE Ledgers(_)
Ledgers(n) ==
  IF n = 0 THEN {<<>>}
  ELSE {<<entry>> \o ledger :
          entry \in {RecordedEntry(n, hand, amount) :
                       hand \in LedgerHands, amount \in LedgerAmounts},
          ledger \in Ledgers(n - 1)}

StatsInit ==
  /\ timerMinutes = MaxMinutes
  /\ timeRemaining = MaxMinutes * SecondsPerMinute
  /\ isRunning = FALSE
  /\ currentPlayer = <<>>
  /\ currentHand = <<>>
  /\ currentAmount = <<>>
  /\ \E n \in 0..MaxLedger :
        /\ entries \in Ledgers(n)
        /\ nextId = n + 1
        /\ now = n
        /\ lastId = n
        /\ lastOp = IF n = 0 THEN Op("init", 0) ELSE Op("recordHighHand", 0)
        /\ lastParsed = IF n = 0 THEN NotRun ELSE entries[1].parsedHand
  /\ geminiApiKey = <<>>
  /\ genAI = FALSE
  /\ showApiKeyInput = TRUE
  /\ currentBestHand = Null
  /\ isParsingHand = FALSE
  /\ demoMode = FALSE
  /\ pending = NoPending
  /\ demoUsed = FALSE
  /\ description = <<>>
  /\ geminiResult = NotRun
  /\ claudeResult = NotRun
  /\ handStats = NotRun

\* const stats = getHandStats() (App.tsx:298)
ReadStats ==
  /\ handStats = NotRun
  /\ handStats' = getHandStats
  /\ UNCHANGED <<description, geminiResult, claudeResult, appVars>>

\* The buttons of the ledger pressed before the statistics are read.
DeleteBeforeRead ==
  /\ handStats = NotRun
  /\ \E k \in 1..Len(entries) : deleteEntry(entries[k].id)

LoadDemoBeforeRead == handStats = NotRun /\ loadDemoData

ClearDemoBeforeRead == handStats = NotRun /\ clearDemoData

StatsNext ==
  \/ ReadStats
  \/ DeleteBeforeRead
  \/ LoadDemoBeforeRead
  \/ ClearDemoBeforeRead

StatsSpec == StatsInit /\ [][StatsNext]_vars


(***************************************************************************)
(* Properties of the classifiers, checked under ParserSpec.                *)
(***************************************************************************)
\* The description in lower case: keywords are looked for in this form.
lowered == toLowerCase(description)

Classified == geminiResult # NotRun /\ claudeResult # NotRun

\* The phrases GeminiCardParser.parseHandFallback looks for, with the rank
\* of the category each stands for.
GeminiKeywords ==
  { <<Lit.royal_flush, 10>>, <<Lit.straight_flush, 9>>,
    <<Lit.four_of_a_kind, 8>>, <<Lit.quads, 8>>, <<Lit.full_house, 7>>,
    <<Lit.boat, 7>>, <<Lit.flush, 6>>, <<Lit.straight, 5>>,
    <<Lit.three_of_a_kind, 4>>, <<Lit.trips, 4>>, <<Lit.two_pair, 3>>,
    <<Lit.pair, 2>> }

\* The ranks of the categories whose keyword occurs in `text`.
GeminiKeywordRanks(text) ==
  {k[2] : k \in {kw \in GeminiKeywords : includes(text, kw[1])}}

\* The word lists ClaudeHandParser.parseHandFallback looks for: a list
\* matches when the description contains every word of it.
ClaudePatterns ==
  << <<Lit.royal, Lit.flush>>, <<Lit.broadway, Lit.flush>>, <<Lit.flush>>,
     <<Lit.straight>> >>
  \o Claude_quadsPatterns \o Claude_fullHousePatterns \o Claude_tripsPatterns
  \o Claude_twoPairPatterns \o Claude_onePairPatterns
  \o Claude_highCardPatterns

MentionsAll(text, pattern) ==
  \A k \in 1..Len(pattern) : includes(text, pattern[k])

MentionsAny(text, patterns) ==
  \E p \in 1..Len(patterns) : MentionsAll(text, patterns[p])

SameSuit(hand) ==
  \A i \in 1..Len(hand.cards) : hand.cards[i].suit = hand.cards[1].suit

RanksOf(hand) == [i \in 1..Len(hand.cards) |-> hand.cards[i].rank]

\* C6: a description in which no category keyword pattern of a parser
\* matches makes that parser's parseHandFallback return null.
C6_NoKeywordGivesNull ==
  Classified =>
    LET text == lowered
    IN  /\ GeminiKeywordRanks(text) = {} => geminiResult = Null
        /\ ~MentionsAny(text, ClaudePatterns) => claudeResult = Null

\* C6 witness: a non-empty description without keywords has been classified
\* as null by both parsers.
C6_Witness ==
  /\ Classified
  /\ Len(description) > 0
  /\ GeminiKeywordRanks(lowered) = {}
  /\ ~MentionsAny(lowered, ClaudePatterns)
  /\ geminiResult = Null /\ claudeResult = Null

\* C7 (as stated): whenever at least one category keyword occurs in the
\* description, GeminiCardParser.parseHandFallback returns a hand whose
\* handRank is that of the highest-ranked category whose keyword occurs.
C7_HighestKeywordWins ==
  Classified =>
    LET found == GeminiKeywordRanks(lowered)
    IN  found # {} =>
          /\ geminiResult # Null
          /\ geminiResult.handRank \in found
          /\ \A r \in found : geminiResult.handRank >= r

IsRoyalFlush(hand) ==
  /\ hand # Null
  /\ hand.handRank = 10
  /\ RanksOf(hand) = <<"A", "K", "Q", "J", "10">>
  /\ SameSuit(hand)

\* C8: a description containing 'royal flush' is classified by both parsers
\* as handRank 10 with the cards A, K, Q, J, 10 of one suit.
C8_RoyalFlush ==
  (Classified /\ includes(lowered, Lit.royal_flush)) =>
    IsRoyalFlush(geminiResult) /\ IsRoyalFlush(claudeResult)

\* C8 witness: a 'royal flush' description that names a suit other than the
\* default has been classified.
C8_Witness ==
  /\ Classified
  /\ includes(lowered, Lit.royal_flush)
  /\ includes(lowered, Lit.diamond)
  /\ IsRoyalFlush(geminiResult) /\ IsRoyalFlush(claudeResult)
  /\ geminiResult.cards[5].suit = "diamonds"
  /\ claudeResult.cards[5].suit = "diamonds"

Position(rank) == CHOOSE k \in 1..Len(ranks) : ranks[k] = rank

IsStraightFlush(hand) ==
  /\ hand # Null
  /\ hand.handRank = 9
  /\ Len(hand.cards) >= 1
  /\ SameSuit(hand)
  /\ \A i \in 1..(Len(hand.cards) - 1) :
        Position(hand.cards[i + 1].rank) = Position(hand.cards[i].rank) - 1

IsFlush(hand) ==
  /\ hand # Null
  /\ hand.handRank = 6
  /\ Len(hand.cards) = 5
  /\ SameSuit(hand)

\* The keywords of the categories above flush, for each parser.
GeminiAboveFlush(text) == \E r \in GeminiKeywordRanks(text) : r > 6

ClaudeAboveFlush(text) ==
  MentionsAny(text, << <<Lit.royal, Lit.flush>>, <<Lit.broadway, Lit.flush>>,
                       <<Lit.straight, Lit.flush>> >>
                    \o Claude_quadsPatterns \o Claude_fullHousePatterns)

\* C10: a description containing 'flush', not 'straight', and no keyword of
\* a higher-ranked category is classified by both parsers as handRank 6
\* with five cards of one suit.
C10_Flush ==
  (/\ Classified
   /\ includes(lowered, Lit.flush)
   /\ ~includes(lowered, Lit.straight)) =>
    LET text == lowered
    IN  /\ ~GeminiAboveFlush(text) => IsFlush(geminiResult)
        /\ ~ClaudeAboveFlush(text) => IsFlush(claudeResult)

\* C10 witness: a flush description naming a suit has been classified as a
\* flush of that suit by both parsers.
C10_Witness ==
  /\ Classified
  /\ includes(lowered, Lit.flush)
  /\ ~includes(lowered, Lit.straight)
  /\ ~GeminiAboveFlush(lowered) /\ ~ClaudeAboveFlush(lowered)
  /\ IsFlush(geminiResult) /\ IsFlush(claudeResult)
  /\ geminiResult.cards[5].suit = "hearts"
  /\ claudeResult.cards[5].suit = "hearts"

\* The keywords of the categories above straight that need no 'flush'.
GeminiAboveStraight(text) ==
  \E r \in GeminiKeywordRanks(text) : r \in {7, 8}

ClaudeAboveStraight(text) ==
  MentionsAny(text, Claude_quadsPatterns \o Claude_fullHousePatterns)

IsMixedStraight(hand) ==
  /\ hand # Null
  /\ hand.handRank = 5
  /\ ~SameSuit(hand)

\* C11: a description containing 'straight', not 'flush', and no keyword of
\* a higher-ranked category is classified by both parsers as handRank 5
\* with cards that are not all of one suit, also when it names a suit.
C11_StraightMixedSuits ==
  (/\ Classified
   /\ includes(lowered, Lit.straight)
   /\ ~includes(lowered, Lit.flush)) =>
    LET text == lowered
    IN  /\ ~GeminiAboveStraight(text) => IsMixedStraight(geminiResult)
        /\ ~ClaudeAboveStraight(text) => IsMixedStraight(claudeResult)

\* C11 witness: a straight description that names a suit has been
\* classified by both parsers as a straight of more than one suit.
C11_Witness ==
  /\ Classified
  /\ includes(lowered, Lit.straight)
  /\ ~includes(lowered, Lit.flush)
  /\ includes(lowered, Lit.heart)
  /\ ~GeminiAboveStraight(lowered) /\ ~ClaudeAboveStraight(lowered)
  /\ IsMixedStraight(geminiResult) /\ IsMixedStraight(claudeResult)

\* The suit words, and those of them a text contains.  A suit word is
\* recognised by its singular, which the plural contains.
SuitWords == {"spades", "hearts", "diamonds", "clubs"}

SuitText(suit) ==
  CASE suit = "spades" -> Lit.spade
    [] suit = "hearts" -> Lit.heart
    [] suit = "diamonds" -> Lit.diamond
    [] suit = "clubs" -> Lit.club

SuitsNamed(text) == {suit \in SuitWords : includes(text, SuitText(suit))}

\* The default suit of the categories dealt in one suit.
DefaultSuit(handRank) ==
  CASE handRank = 10 -> "spades"
    [] handRank = 9 -> "hearts"
    [] handRank = 6 -> "clubs"

AllOfSuit(hand, suit) ==
  \A i \in 1..Len(hand.cards) : hand.cards[i].suit = suit

\* A royal flush, straight flush or flush follows the suit word of the
\* text, or the default of its category when the text has none.
FollowsSuitWord(hand, text) ==
  (hand # Null /\ hand.handRank \in {10, 9, 6}) =>
    /\ \A suit \in SuitWords :
          SuitsNamed(text) = {suit} => AllOfSuit(hand, suit)
    /\ SuitsNamed(text) = {} => AllOfSuit(hand, DefaultSuit(hand.handRank))

\* C12: a royal flush, straight flush or flush that parseHandFallback
\* (either parser) returns for a description with exactly one suit word has
\* every card of that suit; with no suit word it has the default suit of
\* its category (spades, hearts, clubs).
C12_SuitWordOverridesDefault ==
  Classified =>
    LET text == lowered
    IN  FollowsSuitWord(geminiResult, text)
        /\ FollowsSuitWord(claudeResult, text)

\* C12 witness: a straight flush description naming diamonds has been
\* classified, and both parsers dealt it in diamonds, not in hearts.
C12_Witness ==
  /\ Classified
  /\ SuitsNamed(lowered) = {"diamonds"}
  /\ geminiResult # Null /\ geminiResult.handRank = 9
  /\ claudeResult # Null /\ claudeResult.handRank = 9
  /\ AllOfSuit(geminiResult, "diamonds")
  /\ AllOfSuit(claudeResult, "diamonds")

HasFiveCards(hand) == hand # Null => Len(hand.cards) = 5

\* C13 (as stated): every non-null hand returned by parseHandFallback
\* (either parser), for every description and every extracted high card,
\* has exactly five cards.
C13_AlwaysFiveCards ==
  Classified => HasFiveCards(geminiResult) /\ HasFiveCards(claudeResult)

NamedByTable(hand) ==
  hand # Null =>
    /\ hand.handRank \in DOMAIN handRankNames
    /\ hand.handName = handRankNames[hand.handRank]

\* C15: every non-null result of parseHandFallback (either parser) pairs
\* its handRank with the handName the table handRankNames of the UI gives
\* that rank (10 = Royal Flush, ..., 1 = High Card).
C15_RankNamedByTable ==
  Classified => NamedByTable(geminiResult) /\ NamedByTable(claudeResult)

\* C15 witness: a description has been classified as Two Pair, rank 3, by
\* both parsers.
C15_Witness ==
  /\ Classified
  /\ geminiResult # Null /\ claudeResult # Null
  /\ geminiResult.handRank = 3 /\ geminiResult.handName = "Two Pair"
  /\ claudeResult.handRank = 3 /\ claudeResult.handName = "Two Pair"

(***************************************************************************)
(* Properties of App, checked under Spec.                                  *)
(***************************************************************************)
\* The rank a current best counts with: 0 when it has no parsed hand.
BestRank(best) ==
  IF best.parsedHand = Null THEN 0 ELSE best.parsedHand.handRank

\* C1: when updateCurrentBest finishes while a current best exists, the
\* current best is replaced by the new hand if and only if the new hand's
\* handRank is strictly greater than the current best's; otherwise the
\* current best stays as it is.
C1_ReplacedIffStrictlyGreater ==
  [][(lastOp'.op = "updateCurrentBest" /\ currentBestHand # Null) =>
       IF lastParsed' # Null
          /\ lastParsed'.handRank > BestRank(currentBestHand)
       THEN /\ currentBestHand' # currentBestHand
            /\ currentBestHand'.parsedHand = lastParsed'
            /\ currentBestHand'.timestamp = now'
       ELSE currentBestHand' = currentBestHand]_vars

\* C1 witness: updateCurrentBest has just finished with a hand of the same
\* rank as the current best, and the older current best is still in place.
C1_Witness ==
  /\ lastOp.op = "updateCurrentBest"
  /\ lastParsed # Null
  /\ currentBestHand # Null
  /\ currentBestHand.parsedHand # Null
  /\ lastParsed.handRank = currentBestHand.parsedHand.handRank
  /\ currentBestHand.timestamp < now

\* C2 (as stated): the current best is replaced by a hand only in a state
\* where the timer is running.
C2_ReplacedOnlyWhileRunning ==
  [][(/\ currentBestHand # Null
      /\ currentBestHand' # Null
      /\ currentBestHand' # currentBestHand) => isRunning]_vars

\* C3: after resetTimer has run, and after recordHighHand has added an
\* entry, there is no current best.
C3_ClearedByResetAndRecord ==
  lastOp.op \in {"resetTimer", "recordHighHand"} => currentBestHand = Null

\* C3 witness: resetTimer has just run while a call of updateCurrentBest
\* that saw a current best is suspended, and there is no current best.
C3_Witness ==
  /\ lastOp.op = "resetTimer"
  /\ pending.kind = "update"
  /\ pending.best # Null
  /\ currentBestHand = Null

\* C4 (as stated): every newly recorded entry receives an id strictly
\* greater than every id given to an entry earlier in the session.
C4_IdsAlwaysGrow ==
  [][lastOp'.op = "recordHighHand" => entries'[1].id > lastId]_vars

\* C4 (amended): as long as loadDemoData has not been called in the
\* session, every newly recorded entry receives an id strictly greater than
\* every id given to an entry earlier in the session.
C4_IdsGrowWithoutDemo ==
  [][(lastOp'.op = "recordHighHand" /\ ~demoUsed') =>
        entries'[1].id > lastId]_vars

\* C4 witness: a second entry has just been recorded in a session without
\* demo data, with an id above the first entry's.
C4_Witness ==
  /\ lastOp.op = "recordHighHand"
  /\ ~demoUsed
  /\ Len(entries) = 2
  /\ entries[1].id = lastId
  /\ entries[1].id > entries[2].id

\* An entry of the ledger is still there, all fields unchanged, after the
\* step.
Kept(entry) == \E j \in 1..Len(entries') : entries'[j] = entry

DeletedById(entry) ==
  lastOp'.op = "deleteEntry" /\ lastOp'.id = entry.id

\* An entry made by recordHighHand (the demo entries have other players).
Recorded(entry) == \E value \in PlayerInputs : entry.player = trim(value)

\* C5 (as stated): a recorded entry stays in the ledger with all fields
\* unchanged until deleteEntry is called with its id.
C5_OnlyDeleteRemoves ==
  [][\A k \in 1..Len(entries) :
        Recorded(entries[k]) =>
          Kept(entries[k]) \/ DeletedById(entries[k])]_vars

\* C5 (amended): an entry stays in the ledger with all fields unchanged
\* until deleteEntry is called with its id, or loadDemoData or
\* clearDemoData is called.
C5_OnlyDeleteAndDemoRemove ==
  [][\A k \in 1..Len(entries) :
        \/ Kept(entries[k])
        \/ DeletedById(entries[k])
        \/ lastOp'.op \in {"loadDemoData", "clearDemoData"}]_vars

\* C5 witness: deleteEntry has just removed the entry with its id and left
\* two other entries in the ledger.
C5_Witness ==
  /\ lastOp.op = "deleteEntry"
  /\ Len(entries) = 2
  /\ \A k \in 1..Len(entries) : entries[k].id # lastOp.id

\* The parsed hands held by the current best and by the ledger entries.
HeldHands ==
  LET ofBest == IF currentBestHand # Null
                THEN {currentBestHand.parsedHand} ELSE {}
      ofLedger == {entries[k].parsedHand : k \in 1..Len(entries)}
  IN  {h \in ofBest \cup ofLedger : h # Null}

\* C14 (as stated): every parsed hand held by the current best or by a
\* ledger entry has an integer handRank in 1..10, whether the fallback
\* matcher or an accepted response of the external model produced it.
C14_HeldRanksInRange == \A h \in HeldHands : h.handRank \in 1..10

\* The description recordHighHand classifies: the current best's, or the
\* trimmed hand field when there is no current best.
HandOfRecord ==
  IF currentBestHand # Null THEN currentBestHand.hand ELSE trim(currentHand)

RecordClassifies ==
  currentBestHand = Null \/ currentBestHand.parsedHand = Null

\* C16: while no API key has been installed in the parser, no request to
\* the external service is outstanding and the hand updateCurrentBest or
\* recordHighHand classifies gets the result of parseHandFallback, also
\* when the key field holds text that was not submitted.
C16_NoKeyMeansFallbackOnly ==
  [][~genAI' =>
       /\ pending' = NoPending
       /\ lastOp'.op = "updateCurrentBest" =>
            lastParsed' = Gemini_parseHandFallback(currentHand)
       /\ (lastOp'.op = "recordHighHand" /\ RecordClassifies) =>
            /\ lastParsed' = Gemini_parseHandFallback(HandOfRecord)
            /\ entries'[1].parsedHand = lastParsed']_vars

\* C16 witness: with text in the key field but no key installed,
\* updateCurrentBest has just classified a hand by the fallback matcher.
C16_Witness ==
  /\ ~genAI
  /\ geminiApiKey # <<>>
  /\ lastOp.op = "updateCurrentBest"
  /\ lastParsed # Null
  /\ currentBestHand # Null
  /\ currentBestHand.parsedHand = lastParsed
  /\ pending = NoPending

\* The step in which the countdown reaches zero: the interval callback
\* runs with one second left and raises the alert (App.tsx:46-50).
Expires == lastOp'.op = "tick:expired"

FullDuration == timerMinutes * SecondsPerMinute

\* C17 as stated: when a running countdown reaches zero the notification
\* fires once, timeRemaining is set back to the full duration and the
\* timer is running again without a Start.
C17_ExpiryRestarts ==
  [][Expires => /\ isRunning /\ timeRemaining = 1
                /\ timeRemaining' = FullDuration
                /\ isRunning']_vars

\* C17 amended: when a running countdown reaches zero the notification
\* fires once, timeRemaining is set back to the full duration and the
\* timer is stopped; it runs again, and can expire again, only after a
\* Start.
C17_ExpiryResetsAndStops ==
  [][Expires => /\ isRunning /\ timeRemaining = 1
                /\ timeRemaining' = FullDuration
                /\ ~isRunning'
                /\ timerMinutes' = timerMinutes
                /\ lastOp.op # "tick:expired"]_vars

\* C17 witness: the countdown has just expired.
C17_Witness ==
  /\ lastOp.op = "tick:expired"
  /\ ~isRunning
  /\ timeRemaining = FullDuration
  /\ timeRemaining > 1

\* The state of App other than the countdown and the history variables.
BesideCountdown ==
  <<timerMinutes, isRunning, currentPlayer, currentHand, currentAmount,
    entries, nextId, geminiApiKey, currentBestHand, isParsingHand,
    showApiKeyInput, demoMode, genAI, pending>>

\* C18: a tick happens only while the timer runs; a tick with more than one
\* second left lowers timeRemaining by exactly 1 and changes nothing else;
\* Pause and Start leave timeRemaining alone, so that Start after Pause
\* resumes from the paused value.
C18_TickDecrementsOnlyWhileRunning ==
  [][/\ lastOp'.op \in {"tick", "tick:expired"} => isRunning
     /\ lastOp'.op = "tick" =>
          /\ timeRemaining > 1
          /\ timeRemaining' = timeRemaining - 1
          /\ UNCHANGED BesideCountdown
     /\ (isRunning /\ timeRemaining > 1 /\ timeRemaining' # timeRemaining
           /\ isRunning') => lastOp'.op = "tick"
     /\ lastOp'.op = "pauseTimer" =>
          /\ ~isRunning'
          /\ timeRemaining' = timeRemaining
     /\ lastOp'.op = "startTimer" =>
          /\ ~isRunning /\ isRunning'
          /\ timeRemaining' = timeRemaining]_vars

\* C18 witness: Start pressed on a countdown that ticks had lowered before
\* it was paused.
C18_Witness ==
  /\ lastOp.op = "startTimer"
  /\ isRunning
  /\ timerMinutes = MaxMinutes
  /\ timeRemaining = FullDuration - 1
  /\ entries = <<>>
  /\ currentBestHand = Null

\* The arithmetic of the values themselves, with no rounding: a value has
\* the form of a finite number with a significand of any length, and there
\* is one zero.
Exact(neg, m, e) ==
  IF m = <<>> THEN Zero
  ELSE LET zeros == TrailingZeros(m)
       IN  [neg |-> neg, mant |-> ShiftRight(m, zeros), exp |-> e + zeros]

Negated(x) == IF x.mant = <<>> THEN Zero ELSE [x EXCEPT !.neg = ~x.neg]

Magnitude(x) == [x EXCEPT !.neg = FALSE]

\* x + y
ExactPlus(x, y) ==
  IF x.mant = <<>> THEN Exact(y.neg, y.mant, y.exp)
  ELSE IF y.mant = <<>> THEN x
  ELSE LET e == IF x.exp < y.exp THEN x.exp ELSE y.exp
           a == ShiftLeft(x.mant, x.exp - e)
           b == ShiftLeft(y.mant, y.exp - e)
       IN  IF x.neg = y.neg THEN Exact(x.neg, Add(a, b), e)
           ELSE IF Less(a, b) THEN Exact(y.neg, Sub(b, a), e)
           ELSE Exact(x.neg, Sub(a, b), e)

\* x * n, for a whole number n with 0 < n < Base
ExactTimes(x, n) == Exact(x.neg, TimesSmall(x.mant, n), x.exp)

\* x * 2^k
ExactScaled(x, k) == IF x.mant = <<>> THEN Zero ELSE [x EXCEPT !.exp = @ + k]

\* n * 2^k, for a whole number n >= 0
WholeScaled(n, k) == Exact(FALSE, LimbsOf(n), k)

\* The place above the first bit of a value other than 0.
Top(x) == BitLength(x.mant) + x.exp

\* x <= y, for values from 0 on: by their first bits, and by their
\* difference when these agree.
AtMost(x, y) ==
  \/ x.mant = <<>>
  \/ /\ y.mant # <<>>
     /\ \/ Top(x) < Top(y)
        \/ Top(x) = Top(y) /\ ~ExactPlus(y, Negated(x)).neg

\* | x - y |
Distance(x, y) == Magnitude(ExactPlus(x, Negated(y)))

\* The place of the last bit a double of the magnitude of x has: 52 places
\* below its first bit, and never below 2^(-SmallestBit).
LastPlace(x) ==
  IF x.mant = <<>> \/ Top(x) - SignificandBits < 0 - SmallestBit
  THEN 0 - SmallestBit
  ELSE Top(x) - SignificandBits

\* The double IEEE 754 gives for the value x, found by its place between
\* its two neighbours among the multiples of its last place: the one below
\* in magnitude when x is below their middle, the one above when x is above
\* it and the even multiple when x is their middle; an infinity when that
\* is 2^ExponentLimit or more.
NearestDouble(x) ==
  LET floor == ShiftRight(x.mant, LastPlace(x) - x.exp)
      below == Exact(FALSE, floor, LastPlace(x))
      above == Exact(FALSE, Add(floor, <<1>>), LastPlace(x))
      twice == ExactScaled(Magnitude(x), 1)
      nearest ==
        IF x.mant = <<>> \/ x.exp >= LastPlace(x) THEN Magnitude(x)
        ELSE IF twice = ExactPlus(below, above)
        THEN IF floor = <<>> \/ floor[1] % 2 = 0 THEN below ELSE above
        ELSE IF AtMost(twice, ExactPlus(below, above)) THEN below
        ELSE above
  IN  IF AtMost(WholeScaled(1, ExponentLimit), nearest) THEN Infinity(x.neg)
      ELSE IF nearest.mant = <<>> THEN SignedZero(x.neg)
      ELSE [nearest EXCEPT !.neg = x.neg]

\* The sum IEEE 754 defines for two doubles.
SumOf(x, y) ==
  IF x = NaN \/ y = NaN THEN NaN
  ELSE IF ~IsFinite(x) /\ ~IsFinite(y)
  THEN IF x.neg = y.neg THEN x ELSE NaN
  ELSE IF ~IsFinite(x) THEN x
  ELSE IF ~IsFinite(y) THEN y
  ELSE IF x.mant = <<>> /\ y.mant = <<>> THEN SignedZero(x.neg /\ y.neg)
  ELSE NearestDouble(ExactPlus(x, y))

\* The amounts of the first k entries, added one by one from 0 on in the
\* order of the ledger, each sum being the double nearest to the exact sum
\* of the sum before and the amount.
RECURSIVE NearestSum(_)
NearestSum(k) ==
  IF k = 0 THEN Zero ELSE SumOf(NearestSum(k - 1), entries[k].amount)

\* Whether the finite double `quotient` is the one IEEE 754 gives for
\* total / n, told without dividing: n times the quotient is within n
\* times half the gap to the quotient's neighbour of the total, and at
\* exactly half the gap only a quotient that is an even multiple of its
\* last place.  The neighbour below a power of two above the subnormal
\* numbers is half as far as the one above.
IsNearestQuotient(quotient, total, n) ==
  LET product == ExactTimes(Magnitude(quotient), n)
      place == LastPlace(quotient)
      even == quotient.mant = <<>> \/ quotient.exp > place
      narrow == quotient.mant = <<1>> /\ place > 0 - SmallestBit
      off == Distance(product, Magnitude(total))
      half == IF AtMost(product, Magnitude(total)) \/ ~narrow
              THEN WholeScaled(n, place - 1)
              ELSE WholeScaled(n, place - 2)
  IN  /\ quotient.neg = total.neg
      /\ AtMost(off, half)
      /\ off = half => even

\* The exact sum of the amounts of the entries at the positions in S, and
\* of their magnitudes.
RECURSIVE ExactAmounts(_)
ExactAmounts(S) ==
  IF S = {} THEN Zero
  ELSE LET k == CHOOSE k \in S : TRUE
       IN  ExactPlus(entries[k].amount, ExactAmounts(S \ {k}))

RECURSIVE ExactMagnitudes(_)
ExactMagnitudes(S) ==
  IF S = {} THEN Zero
  ELSE LET k == CHOOSE k \in S : TRUE
       IN  ExactPlus(Magnitude(entries[k].amount), ExactMagnitudes(S \ {k}))

\* The sum of the counts a histogram holds for the ranks in S.
RECURSIVE CountsAt(_, _)
CountsAt(histogram, S) ==
  IF S = {} THEN 0
  ELSE LET r == CHOOSE r \in S : TRUE
       IN  histogram[r] + CountsAt(histogram, S \ {r})

Unparsed == {k \in 1..Len(entries) : entries[k].parsedHand = Null}

\* C19: whenever the statistics are read, after Records, deletions and a
\* load or a clearing of the demo data, totalHands is the number n of
\* entries.  totalPayout is the sum of their amounts as IEEE 754 defines the
\* sum of doubles, taken from 0 on in the order of the ledger: each addition
\* gives the double nearest to the exact sum, an infinity from 2^1024 on,
\* and NaN for the two infinities; when it is finite it lies within
\* n * 2^-53 times the sum of the amounts' magnitudes of their exact sum.
\* averagePayout is 0 for an empty ledger and else the double nearest to
\* totalPayout / n, which is 0 or -0 for a total of at most n * 2^-1075 in
\* magnitude, and the total itself when that is an infinity or NaN.  The
\* counts of the histogram sum to totalHands, each rank counts the entries
\* of that rank, and the entries without a parsed hand are filed under
\* rank 0.
C19_StatsFollowLedger ==
  handStats # NotRun =>
    LET n == Len(entries)
        total == handStats.totalPayout
        average == handStats.averagePayout
        histogram == handStats.handsByRank
    IN  /\ handStats.totalHands = n
        /\ total = NearestSum(n)
        /\ (n > 0 /\ total # NaN /\ IsFinite(total)) =>
             AtMost(ExactScaled(Distance(total, ExactAmounts(1..n)),
                                SignificandBits),
                    ExactTimes(ExactMagnitudes(1..n), n))
        /\ n = 0 => average = Zero
        /\ (n > 0 /\ (total = NaN \/ ~IsFinite(total))) => average = total
        /\ (n > 0 /\ total # NaN /\ IsFinite(total)) =>
             /\ average # NaN
             /\ IsFinite(average)
             /\ IsNearestQuotient(average, total, n)
        /\ CountsAt(histogram, DOMAIN histogram) = n
        /\ \A r \in DOMAIN histogram :
             histogram[r] = Cardinality({k \in 1..n :
                                            rankOfEntry(entries[k]) = r})
        /\ Unparsed # {} =>
             /\ 0 \in DOMAIN histogram
             /\ histogram[0] >= Cardinality(Unparsed)

\* C19 witness: the statistics of a ledger of three recorded hands, 0.1 for
\* one no parser classified on top of 0.2 and 0.3 for two flushes:
\* the total is 0.6000000000000001 = 1351079888211149 * 2^-51 and the
\* average 0.20000000000000004 = 7205759403792795 * 2^-55, and rank 0 holds
\* one hand.
C19_Witness ==
  /\ handStats # NotRun
  /\ lastOp.op = "recordHighHand"
  /\ Len(entries) = 3
  /\ Unparsed = {1}
  /\ entries[1].amount = parseFloatOr0(<<"0", ".", "1">>)
  /\ entries[2].amount = parseFloatOr0(<<"0", ".", "2">>)
  /\ entries[3].amount = parseFloatOr0(<<"0", ".", "3">>)
  /\ handStats.totalPayout =
       [neg |-> FALSE, mant |-> <<19661, 6553, 13107, 38>>, exp |-> -51]
  /\ handStats.averagePayout =
       [neg |-> FALSE, mant |-> <<6555, 13107, 26214, 204>>, exp |-> -55]
  /\ handStats.handsByRank[0] = 1
  /\ handStats.handsByRank[6] = 2

\* The positions of `list` whose entry has another id than `id`.
OtherIds(list, id) == {k \in 1..Len(list) : list[k].id # id}

\* The j-th smallest position of a set of positions.
NthOf(positions, j) ==
  CHOOSE k \in positions : Cardinality({m \in positions : m <= k}) = j

\* `result` is `list` without exactly the entries whose id is `id`, the
\* others unchanged and in their order.
RemovesExactly(list, id, result) ==
  /\ Len(result) = Cardinality(OtherIds(list, id))
  /\ \A j \in 1..Len(result) : result[j] = list[NthOf(OtherIds(list, id), j)]

\* The ids a call of deleteEntry is tried with on a ledger: those given
\* so far and two that no entry has.
IdsTried == 0..(lastId' + 1)

\* C20: deleteEntry(id) removes exactly the entries whose id is id and
\* leaves the other entries, their order, nextId, the current best and the
\* timer unchanged; an id no entry has changes nothing, and a second call
\* with the same id changes nothing more.
C20_DeleteRemovesExactlyThatId ==
  [][/\ lastOp'.op = "deleteEntry" =>
          /\ RemovesExactly(entries, lastOp'.id, entries')
          /\ UNCHANGED <<nextId, currentBestHand, timerMinutes,
                         timeRemaining, isRunning>>
     /\ entries' # entries =>
          \A id \in IdsTried :
             LET once == withoutId(entries', id)
             IN  /\ RemovesExactly(entries', id, once)
                 /\ OtherIds(entries', id) = 1..Len(entries') =>
                      once = entries'
                 /\ withoutId(once, id) = once]_vars

\* C20 witness: deleteEntry has removed the middle entry of the demo ledger
\* while a current best was installed and the countdown was running.
C20_Witness ==
  /\ lastOp.op = "deleteEntry"
  /\ lastOp.id = 2
  /\ Len(entries) = 2
  /\ entries[1].id = 1 /\ entries[2].id = 3
  /\ nextId = 4
  /\ currentBestHand # Null
  /\ isRunning

\* C21: the step in which a recordHighHand call that passed the player/hand
\* check ends puts exactly one new entry in front of the ledger as it is at
\* that moment, all entries present before unchanged and in their order;
\* the step that suspends the call on its request leaves the ledger alone.
C21_RecordAddsExactlyOne ==
  [][/\ lastOp'.op = "recordHighHand" =>
          /\ Len(entries') = Len(entries) + 1
          /\ Tail(entries') = entries
          /\ Head(entries').parsedHand = lastParsed'
          /\ Head(entries').player # <<>> /\ Head(entries').hand # <<>>
     /\ lastOp'.op = "recordHighHand:await" =>
          /\ entries' = entries
          /\ pending'.kind = "record"
          /\ pending'.player # <<>> /\ pending'.hand # <<>>
     /\ (pending.kind = "record" /\ pending'.kind # "record") =>
          lastOp'.op = "recordHighHand"]_vars

\* C21 witness: a recordHighHand call whose request was pending while the
\* demo ledger was loaded has ended and added its entry in front of the
\* three demo entries.
C21_Witness ==
  /\ lastOp.op = "recordHighHand"
  /\ Len(entries) = 4
  /\ demoMode
  /\ entries[1].id = 1
  /\ entries[2].id = 1 /\ entries[3].id = 2 /\ entries[4].id = 3

\* The answers with which parseHand fails: the request errors or its text
\* is no JSON, or the object lacks cards, a handName or a numeric handRank.
FailedResponses ==
  { [kind |-> "error"],
    [kind |-> "object", cards |-> Null, handName |-> "Flush",
     typeofHandRank |-> "number", handRank |-> 6],
    [kind |-> "object", cards |-> AiCards, handName |-> "",
     typeofHandRank |-> "number", handRank |-> 6],
    [kind |-> "object", cards |-> AiCards, handName |-> "Flush",
     typeofHandRank |-> "undefined", handRank |-> 0],
    [kind |-> "object", cards |-> AiCards, handName |-> "Flush",
     typeofHandRank |-> "string", handRank |-> 0] }

\* The results parseHand accepts among the answers of the model.
AcceptedResults ==
  {Gemini_parseHandResult(response) : response \in AiResponses} \ {Null}

\* The step ends a call of updateCurrentBest or recordHighHand that has
\* classified a hand with parseHandWithGemini.
Classifies ==
  \/ lastOp'.op = "updateCurrentBest"
  \/ lastOp'.op = "recordHighHand" /\ (pending.kind = "record" \/ RecordClassifies)

\* The description that call gave to parseHandWithGemini.
ClassifiedHand ==
  IF pending # NoPending THEN pending.hand
  ELSE IF lastOp'.op = "updateCurrentBest" THEN currentHand
  ELSE HandOfRecord

\* The step suspends a call on its request to the classifier.
Requests ==
  lastOp'.op \in {"updateCurrentBest:await", "recordHighHand:await"}

\* C22: parseHandWithGemini always returns: when no request was sent
\* (parseHand throws for lack of a key, or is not called) and when the
\* request fails in any of the ways above, its result is
\* parseHandFallback of the description, null included; any other result
\* is an answer parseHand accepted.
C22_FailureGivesFallback ==
  [][/\ Requests =>
          \A response \in FailedResponses :
             parseAfterRequest(pending'.hand, response)
               = Gemini_parseHandFallback(pending'.hand)
     /\ Classifies =>
          \E fallback \in {Gemini_parseHandFallback(ClassifiedHand)} :
             /\ pending = NoPending => lastParsed' = fallback
             /\ pending # NoPending =>
                  lastParsed' = fallback \/ lastParsed' \in AcceptedResults]_vars

\* C22 witness: a request was sent for "Flush", it failed, and
\* updateCurrentBest installed the fallback's flush, not the classifier's.
C22_Witness ==
  /\ genAI /\ geminiApiKey # <<>>
  /\ lastOp.op = "updateCurrentBest"
  /\ currentBestHand # Null
  /\ lastParsed # Null
  /\ currentBestHand.parsedHand = lastParsed
  /\ lastParsed = Gemini_parseHandFallback(currentBestHand.hand)
  /\ lastParsed.cards # AiCards

\* The countdown has expired: the alert was raised and timeRemaining is
\* back at the full duration.
Expired ==
  /\ lastOp.op = "tick:expired"
  /\ timeRemaining = FullDuration

\* The countdown was paused or reset (by the Reset button or by the
\* resetTimer call that ends recordHighHand).
PausedOrReset ==
  /\ ~isRunning
  /\ lastOp.op \in {"pauseTimer", "resetTimer", "recordHighHand"}

\* C23: under fair ticking a started timer that is never paused or reset
\* eventually expires: the alert has been raised and timeRemaining is back
\* at the full duration.
C23_StartedTimerExpires == isRunning ~> (Expired \/ PausedOrReset)

\* C23 witness: a countdown of the longest duration has run down to its
\* expiry while a current best was installed.
C23_Witness ==
  /\ Expired
  /\ ~isRunning
  /\ timerMinutes = MaxMinutes
  /\ currentBestHand # Null

\* C24: in every reachable state no two entries of the ledger share an id.
C24_IdsUnique ==
  \A i, j \in 1..Len(entries) : i # j => entries[i].id # entries[j].id

\* The current best has just been cleared by resetTimer or by the Clear
\* button while an updateCurrentBest call was suspended on its request.
ClearedWhilePending ==
  /\ lastOp.op \in {"resetTimer", "clearCurrentBest"}
  /\ currentBestHand = Null
  /\ pending.kind = "update"

\* C25: the request that was pending when the current best was cleared
\* does not install its hand afterwards: the step that follows the clear
\* and ends the suspended call leaves the current best empty.
C25_PendingNeverInstallsAfterClear ==
  [][(ClearedWhilePending /\ lastOp'.op = "updateCurrentBest") =>
        currentBestHand' = Null]_vars

\* C26: in every reachable state the countdown is at least 1 and at most
\* the full duration configured at present.
C26_TimeRemainingInRange ==
  /\ 1 <= timeRemaining
  /\ timeRemaining <= timerMinutes * SecondsPerMinute

\* C27: as long as the current best is not cleared, its rank does not
\* decrease: a step from one current best to another installs a hand of
\* strictly higher rank, an unclassified current best counting as rank 0.
C27_RankGrowsBetweenClears ==
  [][(currentBestHand # Null /\ currentBestHand' # Null
        /\ currentBestHand' # currentBestHand) =>
       /\ currentBestHand'.parsedHand # Null
       /\ BestRank(currentBestHand') > BestRank(currentBestHand)
       /\ lastOp'.op = "updateCurrentBest"]_vars

\* C27 witness: the second updateCurrentBest in a row has installed a
\* classified hand in a session without ledger operations.
C27_Witness ==
  /\ lastOp.op = "updateCurrentBest"
  /\ now = 2
  /\ currentBestHand # Null
  /\ currentBestHand.timestamp = now
  /\ currentBestHand.parsedHand # Null
  /\ currentBestHand.parsedHand.handRank = 11
  /\ entries = <<>> /\ ~demoUsed /\ lastId = 0

\* C28: when updateCurrentBest ends and no current best exists, the
\* submitted hand becomes the current best, also with a null
\* classification; when a current best exists, a hand whose classification
\* is null does not replace it; a classified hand of rank 1 or more
\* replaces a current best that has no parsed hand.
C28_UnclassifiedInSelection ==
  [][lastOp'.op = "updateCurrentBest" =>
       /\ currentBestHand = Null =>
            /\ currentBestHand' # Null
            /\ currentBestHand'.parsedHand = lastParsed'
       /\ (currentBestHand # Null /\ lastParsed' = Null) =>
            currentBestHand' = currentBestHand
       /\ (/\ currentBestHand # Null
           /\ currentBestHand.parsedHand = Null
           /\ lastParsed' # Null
           /\ lastParsed'.handRank >= 1) =>
            /\ currentBestHand' # Null
            /\ currentBestHand'.parsedHand = lastParsed']_vars

(***************************************************************************)
(* Properties of the cards of a classified hand, checked under ParserSpec. *)
(***************************************************************************)
\* The category of five cards by the rules of poker (10 = royal flush, ...,
\* 1 = high card), from their ranks and suits; 0 when the cards are not
\* five cards of known ranks.
PokerCategory(cards) ==
  IF \/ Len(cards) # 5
     \/ \E i \in 1..Len(cards) : \A k \in 1..Len(ranks) : ranks[k] # cards[i].rank
  THEN 0
  ELSE
    LET at == [i \in 1..5 |-> Position(cards[i].rank)]
        held == {at[i] : i \in 1..5}
        times(p) == Cardinality({i \in 1..5 : at[i] = p})
        pairs == {p \in held : times(p) = 2}
        oneSuit == \A i \in 1..5 : cards[i].suit = cards[1].suit
        top == Position("A")
        highest == CHOOSE p \in held : \A q \in held : q <= p
        lowest == CHOOSE p \in held : \A q \in held : p <= q
        inRow == /\ Cardinality(held) = 5
                 /\ \/ highest - lowest = 4
                    \/ held = {top} \cup {Position("2") + k : k \in 0..3}
    IN  CASE inRow /\ oneSuit /\ highest = top /\ lowest = top - 4 -> 10
          [] inRow /\ oneSuit /\ ~(highest = top /\ lowest = top - 4) -> 9
          [] ~(inRow /\ oneSuit) /\ (\E p \in held : times(p) = 4) -> 8
          [] (\E p \in held : times(p) = 3) /\ pairs # {} -> 7
          [] oneSuit /\ ~inRow -> 6
          [] inRow /\ ~oneSuit -> 5
          [] (\E p \in held : times(p) = 3) /\ pairs = {} /\ ~oneSuit -> 4
          [] Cardinality(pairs) = 2 /\ ~oneSuit -> 3
          [] Cardinality(pairs) = 1 /\ Cardinality(held) = 4 /\ ~oneSuit -> 2
          [] OTHER -> 1

\* The cards of a hand make up the category its handRank names; a flush
\* starts with its highest card.
CardsMatchRank(hand) ==
  hand # Null =>
    /\ PokerCategory(hand.cards) = hand.handRank
    /\ hand.handRank = 6 =>
         \A i \in 1..Len(hand.cards) :
            Position(hand.cards[i].rank) <= Position(hand.cards[1].rank)

\* C29: for every non-null result of parseHandFallback (either parser) the
\* returned cards, by the rules of poker, are a hand of the category that
\* handRank gives.
C29_CardsFormTheRankedHand ==
  Classified => CardsMatchRank(geminiResult) /\ CardsMatchRank(claudeResult)

\* No card occurs twice among the cards of a hand.
DistinctCards(hand) ==
  hand # Null =>
    \A i, j \in 1..Len(hand.cards) : i # j => hand.cards[i] # hand.cards[j]

\* C30: for every non-null result of parseHandFallback (either parser) the
\* returned cards are pairwise distinct: no rank and suit occurs twice.
C30_CardsPairwiseDistinct ==
  Classified => DistinctCards(geminiResult) /\ DistinctCards(claudeResult)

=============================================================================
